---- MODULE Spec2Model ----
(***************************************************************************)
(* canhazgpu / k8shazgpu: the node agent's GPU allocation coordinator and  *)
(* its Redis ledger client, the ResourceClaim controller that calls it,    *)
(* and the node agent's cache plan reconciler.                             *)
(***************************************************************************)
EXTENDS Integers, Sequences, FiniteSets, TLC

(***************************************************************************)
(* Bounds of the model.                                                    *)
(***************************************************************************)
\* GPUs of a node: the value stored under the ledger's gpu_count key.
NumGPUs == 2
\* Largest number of GPUs one /allocate asks for, by gpuCount or by gpuIDs.
MaxCount == 2

\* The clock stops after MaxTime half hours.
MaxTime == 2

\* The CachePlan is written at most MaxRevisions times.
MaxRevisions == 2

\* time.Hour, in half hours.
Hour == 2

Nodes == {"n1", "n2"}
Claims == {"c1", "c2"}
\* The node whose agent the single-node specifications follow.
ThisNode == "n1"

(***************************************************************************)
(* The ledger (Redis) of one node.                                         *)
(***************************************************************************)
\* The decimal strings of the integers the model formats.
ItoaTable == [i \in 0..(NumGPUs + MaxCount) |-> ToString(i)]

\* fmt.Sprintf("%d", gpuID): the id as it appears in keys and set members.
Itoa(i) == ItoaTable[i]

\* The strings a /allocate request may name in gpuIDs: two ids and one string
\* that is no integer.
IDStrings == {Itoa(0), Itoa(1), "x"}

\* strconv.Atoi on the strings above: the integer, or -1 for a parse error.
AtoiTable ==
    [s \in IDStrings |->
        IF \E i \in 0..NumGPUs : Itoa(i) = s
        THEN CHOOSE i \in 0..NumGPUs : Itoa(i) = s
        ELSE -1]

Atoi(s) == AtoiTable[s]

GPUKeys == {Itoa(i) : i \in 0..(NumGPUs - 1)}

\* A GET that returns redis.Nil: the key does not exist.
NoKey == [present |-> FALSE, user |-> "", type |-> ""]
\* The JSON blob of a types.GPUState (timestamps left out).
GPUState(user, type) == [present |-> TRUE, user |-> user, type |-> type]

\* The User field ReserveGPUsForClaim writes.
K8sUser(claimUID) == "k8s:" \o claimUID

EmptyLedger ==
    [gpuCount  |-> NumGPUs,
     gpu       |-> [k \in GPUKeys |-> NoKey],
     host      |-> [k \in GPUKeys |-> NoKey],
     claimGPUs |-> [c \in Claims |-> {}],
     claimInfo |-> {}]

Range(s) == {s[j] : j \in 1..Len(s)}

Min(S) == CHOOSE x \in S : \A y \in S : x <= y

\* The members of a finite set of integers in ascending order.
RECURSIVE Ascending(_)
Ascending(S) == IF S = {} THEN <<>> ELSE <<Min(S)>> \o Ascending(S \ {Min(S)})

(***************************************************************************)
(* redisstate.Client                                                       *)
(***************************************************************************)
\* One side of the availability test of GetAvailableGPUs: the key is missing
\* (redis.Nil), or its blob has an empty User and an empty Type.
SlotAvailable(d) ==
    IF ~d.present THEN TRUE ELSE d.user = "" /\ d.type = ""

RECURSIVE AvailableFrom(_, _)
AvailableFrom(L, i) ==
    IF i >= L.gpuCount
    THEN <<>>
    ELSE LET k8sAvailable  == SlotAvailable(L.gpu[Itoa(i)])
             hostAvailable == SlotAvailable(L.host[Itoa(i)])
         IN (IF k8sAvailable /\ hostAvailable THEN <<i>> ELSE <<>>)
                \o AvailableFrom(L, i + 1)

\* Mutant: the cluster-managed key is not looked at.
GetAvailableGPUs_IgnoreK8s(L) ==
    Ascending({i \in 0..(L.gpuCount - 1) : SlotAvailable(L.host[Itoa(i)])})

\* Mutant: the host-managed key is not looked at.
GetAvailableGPUs_IgnoreHost(L) ==
    Ascending({i \in 0..(L.gpuCount - 1) : SlotAvailable(L.gpu[Itoa(i)])})

\* GetAvailableGPUs: for i = 0 .. gpu_count-1 in order, the ids whose
\* cluster-managed key and host-managed key both show the slot available.
GetAvailableGPUs(L) == AvailableFrom(L, 0)

\* GetGPUState: the blob of the cluster-managed key, or the zero value.
GetGPUState(L, gpuID) ==
    IF L.gpu[Itoa(gpuID)].present THEN L.gpu[Itoa(gpuID)] ELSE GPUState("", "")

\* Mutant: the GPU state is written only when the slot has no owner (a
\* per-slot compare-and-swap), and the write fails otherwise.
SetGPUState_IfUnowned(L, gpuID, claimUID) ==
    IF L.gpu[Itoa(gpuID)].user = ""
    THEN [ledger |-> [L EXCEPT !.gpu[Itoa(gpuID)] =
                                   GPUState(K8sUser(claimUID), "k8s")],
          err    |-> ""]
    ELSE [ledger |-> L, err |-> "failed to set GPU state"]

\* SET of the GPU state blob of gpuID: User "k8s:<claimUID>", Type "k8s".
SetGPUState(L, gpuID, claimUID) ==
    [ledger |-> [L EXCEPT !.gpu[Itoa(gpuID)] = GPUState(K8sUser(claimUID), "k8s")],
     err    |-> ""]

\* SET of the per-claim-per-GPU reservation info.
SetClaimInfo(L, gpuID, claimUID) ==
    [ledger |-> [L EXCEPT !.claimInfo = @ \cup {<<claimUID, Itoa(gpuID)>>}],
     err    |-> ""]

\* The loop of ReserveGPUsForClaim over gpuIDs[i..]: the first write that
\* fails ends the call, the writes before it stay.
RECURSIVE ReserveLoop(_, _, _, _)
ReserveLoop(L, gpuIDs, claimUID, i) ==
    IF i > Len(gpuIDs)
    THEN [ledger |-> L, err |-> ""]
    ELSE LET s1 == SetGPUState(L, gpuIDs[i], claimUID)
             s2 == SetClaimInfo(s1.ledger, gpuIDs[i], claimUID)
         IN IF s1.err # "" THEN s1
            ELSE IF s2.err # "" THEN s2
            ELSE ReserveLoop(s2.ledger, gpuIDs, claimUID, i + 1)

\* Mutant: the mapping is overwritten (SET) instead of added to (SADD).
SAddClaimGPUs_Overwrite(L, gpuIDs, claimUID) ==
    IF Len(gpuIDs) = 0
    THEN [ledger |-> L, err |-> "failed to store claim GPU mapping"]
    ELSE [ledger |-> [L EXCEPT !.claimGPUs[claimUID] =
                                   {Itoa(gpuIDs[j]) : j \in 1..Len(gpuIDs)}],
          err    |-> ""]

\* SADD of the ids to the claim's set. SADD with no member is rejected by
\* Redis (wrong number of arguments), which the client returns as an error.
SAddClaimGPUs(L, gpuIDs, claimUID) ==
    IF Len(gpuIDs) = 0
    THEN [ledger |-> L, err |-> "failed to store claim GPU mapping"]
    ELSE [ledger |-> [L EXCEPT !.claimGPUs[claimUID] =
                                   @ \cup {Itoa(gpuIDs[j]) : j \in 1..Len(gpuIDs)}],
          err    |-> ""]

\* ReserveGPUsForClaim: the per-GPU writes, then the claim -> GPU mapping.
ReserveGPUsForClaim(L, gpuIDs, claimUID) ==
    LET loop == ReserveLoop(L, gpuIDs, claimUID, 1)
    IN IF loop.err # "" THEN loop
       ELSE SAddClaimGPUs(loop.ledger, gpuIDs, claimUID)

\* Mutant: the released blob keeps the Type of the reservation.
ReleasedState_KeepsType == GPUState("", "k8s")

\* The blob ReleaseGPUsForClaim writes: only LastReleased is set.
ReleasedState == GPUState("", "")

\* Mutant: a claim without a set is reported as an error (redis.Nil not let
\* through).
ReleaseGPUsForClaim_NilIsError(L, claimUID) ==
    LET gpuIDs == L.claimGPUs[claimUID]
        L1 == [L EXCEPT !.gpu = [k \in GPUKeys |->
                                    IF k \in gpuIDs
                                    THEN GPUState("", "") ELSE @[k]]]
        L2 == [L1 EXCEPT !.claimInfo = @ \ {<<claimUID, k>> : k \in gpuIDs}]
    IN IF gpuIDs = {}
       THEN [ledger |-> L, err |-> "failed to get claim GPUs"]
       ELSE [ledger |-> [L2 EXCEPT !.claimGPUs[claimUID] = {}], err |-> ""]

\* Mutant: the release leaves the reservation info of the claim in place.
ReleaseGPUsForClaim_KeepsInfo(L, claimUID) ==
    LET gpuIDs == L.claimGPUs[claimUID]
        L1 == [L EXCEPT !.gpu = [k \in GPUKeys |->
                                    IF k \in gpuIDs
                                    THEN GPUState("", "") ELSE @[k]]]
    IN [ledger |-> [L1 EXCEPT !.claimGPUs[claimUID] = {}], err |-> ""]

\* ReleaseGPUsForClaim: SMEMBERS of the claim's set; for each member the GPU
\* key is overwritten with the released blob and the reservation info is
\* deleted; then the set itself is deleted.
ReleaseGPUsForClaim(L, claimUID) ==
    IF claimUID \notin DOMAIN L.claimGPUs
    THEN [ledger |-> L, err |-> ""]
    ELSE
    LET gpuIDs == L.claimGPUs[claimUID]
        L1 == [L EXCEPT !.gpu = [k \in GPUKeys |->
                                    IF k \in gpuIDs THEN ReleasedState ELSE @[k]]]
        L2 == [L1 EXCEPT !.claimInfo = @ \ {<<claimUID, k>> : k \in gpuIDs}]
    IN [ledger |-> [L2 EXCEPT !.claimGPUs[claimUID] = {}], err |-> ""]

(***************************************************************************)
(* NodeAgent: the HTTP handlers                                            *)
(***************************************************************************)
\* The NodeAgent struct of the agent of node n (GPUCount is the -gpu-count
\* flag, taken here to agree with the pool).
NodeAgent(n) == [NodeName |-> n, GPUCount |-> NumGPUs]

AllocationRequest(claimUID, gpuCount, gpuIDs) ==
    [op |-> "allocate", claimUID |-> claimUID, gpuCount |-> gpuCount,
     gpuIDs |-> gpuIDs]

DeallocationRequest(claimUID) ==
    [op |-> "deallocate", claimUID |-> claimUID, gpuCount |-> 0,
     gpuIDs |-> <<>>]

\* api.AllocationResponse{Success: false, Error: ...}
AllocationFailure(error) ==
    [success |-> FALSE, allocatedGPUs |-> <<>>, nodeName |-> "", error |-> error]

AllocationSuccess(selectedGPUs, nodeName) ==
    [success |-> TRUE, allocatedGPUs |-> selectedGPUs, nodeName |-> nodeName,
     error |-> ""]

MsgInvalidID(s) == "Invalid GPU ID: " \o s
MsgNotAvailable(gpuID) == "GPU " \o Itoa(gpuID) \o " is not available"
MsgNotEnough(requested, available) ==
    "Not enough available GPUs: requested " \o Itoa(requested)
        \o ", available " \o Itoa(available)
MsgReserveFailed(err) == "Failed to reserve GPUs: " \o err

\* Mutant: a named id that is not available is skipped, the others are taken.
SelectGPUs_SkipUnavailable(r, availableGPUs) ==
    IF Len(r.gpuIDs) > 0
    THEN [selected |-> SelectSeq([j \in 1..Len(r.gpuIDs) |-> Atoi(r.gpuIDs[j])],
                                 LAMBDA g : g \in Range(availableGPUs)),
          error |-> ""]
    ELSE IF Len(availableGPUs) < r.gpuCount
         THEN [selected |-> <<>>,
               error |-> MsgNotEnough(r.gpuCount, Len(availableGPUs))]
         ELSE [selected |-> SubSeq(availableGPUs, 1, r.gpuCount), error |-> ""]

\* Mutant: with too few GPUs available the request gets the ones there are.
SelectGPUs_TakeWhatIsThere(r, availableGPUs) ==
    IF Len(r.gpuIDs) > 0
    THEN [selected |-> [j \in 1..Len(r.gpuIDs) |-> Atoi(r.gpuIDs[j])],
          error |-> IF \E j \in 1..Len(r.gpuIDs) :
                          Atoi(r.gpuIDs[j]) \notin Range(availableGPUs)
                    THEN "GPU is not available" ELSE ""]
    ELSE IF Len(availableGPUs) < r.gpuCount
         THEN [selected |-> availableGPUs, error |-> ""]
         ELSE [selected |-> SubSeq(availableGPUs, 1, r.gpuCount), error |-> ""]

\* Mutant: without named ids the last gpuCount available ids are taken.
SelectGPUs_TakeLast(r, availableGPUs) ==
    IF Len(r.gpuIDs) > 0
    THEN SelectGPUs_SkipUnavailable(r, availableGPUs)
    ELSE IF Len(availableGPUs) < r.gpuCount
         THEN [selected |-> <<>>,
               error |-> MsgNotEnough(r.gpuCount, Len(availableGPUs))]
         ELSE [selected |-> SubSeq(availableGPUs,
                                   Len(availableGPUs) - r.gpuCount + 1,
                                   Len(availableGPUs)),
               error |-> ""]

\* Mutant: named ids are taken without looking them up in availableGPUs.
SelectGPUs_NoLookup(r, availableGPUs) ==
    IF Len(r.gpuIDs) > 0 /\ \A j \in 1..Len(r.gpuIDs) : Atoi(r.gpuIDs[j]) # -1
    THEN [selected |-> [j \in 1..Len(r.gpuIDs) |-> Atoi(r.gpuIDs[j])],
          error |-> ""]
    ELSE SelectGPUs_SkipUnavailable(r, availableGPUs)

\* "Select GPUs to allocate": with gpuIDs, each id in request order is parsed
\* and looked up in availableGPUs, and the first that fails ends the request;
\* without, the first gpuCount ids of availableGPUs.
SelectGPUs(r, availableGPUs) ==
    IF Len(r.gpuIDs) > 0
    THEN LET bad == {j \in 1..Len(r.gpuIDs) :
                        \/ Atoi(r.gpuIDs[j]) = -1
                        \/ Atoi(r.gpuIDs[j]) \notin Range(availableGPUs)}
         IN IF bad # {}
            THEN LET s == r.gpuIDs[Min(bad)]
                 IN [selected |-> <<>>,
                     error |-> IF Atoi(s) = -1 THEN MsgInvalidID(s)
                               ELSE MsgNotAvailable(Atoi(s))]
            ELSE [selected |-> [j \in 1..Len(r.gpuIDs) |-> Atoi(r.gpuIDs[j])],
                  error |-> ""]
    ELSE IF Len(availableGPUs) < r.gpuCount
         THEN [selected |-> <<>>,
               error |-> MsgNotEnough(r.gpuCount, Len(availableGPUs))]
         ELSE [selected |-> SubSeq(availableGPUs, 1, r.gpuCount), error |-> ""]

\* handleAllocate on the ledger L: the new ledger and the response.
handleAllocate(na, L, r) ==
    LET availableGPUs == GetAvailableGPUs(L)
        sel == SelectGPUs(r, availableGPUs)
    IN IF sel.error # ""
       THEN [ledger |-> L, resp |-> AllocationFailure(sel.error)]
       ELSE LET res == ReserveGPUsForClaim(L, sel.selected, r.claimUID)
            IN IF res.err # ""
               THEN [ledger |-> res.ledger,
                     resp |-> AllocationFailure(MsgReserveFailed(res.err))]
               ELSE [ledger |-> res.ledger,
                     resp |-> AllocationSuccess(sel.selected, na.NodeName)]

\* handleDeallocate on the ledger L.
handleDeallocate(na, L, r) ==
    LET res == ReleaseGPUsForClaim(L, r.claimUID)
    IN [ledger |-> res.ledger,
        resp |-> [success |-> res.err = "", allocatedGPUs |-> <<>>,
                  nodeName |-> "", error |-> res.err]]

\* state.User[4:] of a "k8s:<claimUID>" user.
ClaimOfUser(user) ==
    IF \E c \in Claims : K8sUser(c) = user
    THEN CHOOSE c \in Claims : K8sUser(c) = user
    ELSE ""

RECURSIVE AllocatedFrom(_, _, _)
AllocatedFrom(na, L, i) ==
    IF i >= na.GPUCount
    THEN <<>>
    ELSE LET state == GetGPUState(L, i)
         IN (IF state.user # ""
             THEN << [id |-> i,
                      claimUID |-> IF state.type = "k8s"
                                   THEN ClaimOfUser(state.user)
                                   ELSE "manual:" \o state.user] >>
             ELSE <<>>) \o AllocatedFrom(na, L, i + 1)

\* handleStatus: reads only.
handleStatus(na, L) ==
    [ledger |-> L,
     resp |-> [success |-> TRUE, nodeName |-> na.NodeName,
               totalGPUs |-> na.GPUCount,
               availableGPUs |-> GetAvailableGPUs(L),
               allocatedGPUs |-> AllocatedFrom(na, L, 0), error |-> ""]]

(***************************************************************************)
(* State                                                                   *)
(***************************************************************************)
VARIABLES
    ledger,        \* ledger[n]: the Redis ledger of node n
    phase,         \* "idle", "pending" (req is being handled) or "responded"
    req,           \* the request in the node agent's handler
    resp,          \* the handler's response
    lastReserved,  \* history: the claim and the ids of the successful
                   \* /allocate that was the last thing to touch the ledger
    freed,         \* history: the members the handler of /deallocate read
                   \* from the claim's set

    procs,         \* procs[p]: a handler of /allocate that runs interleaved
                   \* with the other one
    claimObj,      \* claimObj[c]: the ResourceClaim with UID c in the API server
    nodeReady,     \* nodeReady[n]: the NodeReady condition of node n
    ctlLast,       \* history: the calls and the result of the last Reconcile
    cachePlans,    \* the CachePlan objects the cluster lists
    nextRV,        \* the resourceVersion the next write of a plan gets
    now,           \* the clock, in half hours
    reconciler,    \* the fields of the SimpleCacheReconciler, and the
                   \* repository directories under its cache directory
    nodeCacheStatus, \* the NodeCacheStatus object of the node
    cacheLast,     \* history: what the last Reconcile of the cache
                   \* reconciler saw and did
    beat,          \* the UpdateHeartbeat call of the ledger client: where it
                   \* is, and what it read and wrote
    pkg,           \* the node as the Reconciler of pkg/cache leaves it: the
                   \* images in the host runtime, the repositories under
                   \* GitCachePath, and what its last Reconcile did
    run            \* where the goroutine that calls Reconcile of the node
                   \* agent's reconciler is: "idle" between passes, "running"
                   \* in a pass, "hung" in a tool that never returns

agentVars == <<phase, req, resp, lastReserved, freed>>
raceVars == <<procs>>
ctlVars == <<claimObj, nodeReady, ctlLast>>
cacheVars == <<cachePlans, nextRV, now, reconciler, nodeCacheStatus, cacheLast>>
beatVars == <<beat>>
pkgVars == <<pkg>>
runVars == <<run>>
vars == <<ledger, agentVars, raceVars, ctlVars, cacheVars, beatVars, pkgVars,
          runVars>>

NoRequest == [op |-> "none", claimUID |-> "", gpuCount |-> 0, gpuIDs |-> <<>>]
StatusRequest == [op |-> "status", claimUID |-> "", gpuCount |-> 0, gpuIDs |-> <<>>]
NoResponse == [success |-> FALSE, allocatedGPUs |-> <<>>, nodeName |-> "", error |-> ""]
NothingReserved == [claimUID |-> "", gpus |-> {}]

\* The order of nodes.Items in the controller's node list.
NodeOrder == <<"n1", "n2">>

\* claim.Status.Allocation == nil
NoAllocation == [node |-> "", gpus |-> <<>>]

\* A ResourceClaim that was never created, and one that is deleted.
NoClaim ==
    [phase |-> "none", deleting |-> FALSE, finalizer |-> FALSE,
     allocation |-> NoAllocation, requests |-> <<>>]
GoneClaim == [NoClaim EXCEPT !.phase = "gone"]

\* No Reconcile has run.
NoReconcile == [claimUID |-> "", calls |-> <<>>, err |-> "", requeue |-> FALSE]

\* timeSinceLastFull of a reconciler that never did a full reconcile is at
\* least an hour: the zero time.Time lies that far back.
ZeroTime == 0 - Hour

\* The items a CachePlan can list.
ImageItem == [type |-> "image", name |-> "app", ref |-> "registry.io/app:1",
              branch |-> ""]
GitRepoItem == [type |-> "gitRepo", name |-> "tools",
                ref |-> "https://git.example/tools", branch |-> "main"]
ItemLists == {<<>>, <<ImageItem>>, <<GitRepoItem>>, <<ImageItem, GitRepoItem>>}

\* The annotations of a plan: the names with an update-repo-<name> key and
\* the names whose force-update-<name> key is "true".
NoAnnotations == [update |-> {}, force |-> {}]
AnnotationSets ==
    {[update |-> u, force |-> f] : u \in SUBSET {GitRepoItem.name},
                                   f \in SUBSET {GitRepoItem.name}}


\* The keys of currentImageStatus: the image ref, or "<url>#<branch>".
ImageKey(item) == item.ref
RepoKey(item) == item.ref \o "#" \o item.branch
StatusKeys == {ImageKey(ImageItem), RepoKey(GitRepoItem)}
\* The iteration orders of the map that getCurrentStatus can tell apart:
\* images and repositories go to lists of their own.
KeyOrders == {<<ImageKey(ImageItem), RepoKey(GitRepoItem)>>}

\* A key without an entry in currentImageStatus.
NoStatus == [ref |-> "", name |-> "", branch |-> "", present |-> FALSE,
             status |-> "", message |-> ""]

\* NodeCacheStatus before the first write.
NoNodeCacheStatus ==
    [exists |-> FALSE, images |-> <<>>, gitRepos |-> <<>>, errors |-> <<>>]

\* No Reconcile of the cache reconciler has run. A pass records whether it
\* got the plans (fetched) and which, whether the pass before it got the
\* same plans (samePlans), whether timeSinceLastFull was an hour or more when
\* it started (hourPassed), whether it was a full reconcile, the tools it
\* invoked in order, and the error it returned.
NoPass ==
    [fetched |-> FALSE, plans |-> <<>>, samePlans |-> FALSE,
     hourPassed |-> FALSE, full |-> FALSE, tools |-> <<>>, err |-> ""]

\* The two concurrent handlers.
Procs == {"p1", "p2"}
IdleProc ==
    [pc |-> "idle", req |-> NoRequest, selected |-> <<>>, i |-> 0,
     resp |-> NoResponse]

\* The gpuIDs lists of the requests: one to MaxCount of IDStrings.
IDLists == UNION {[1..k -> IDStrings] : k \in 1..MaxCount}

\* No UpdateHeartbeat call is running and none has run: pc is where the call
\* is, todo the members of the claim's set it has still to visit, key and data
\* the GPU key it read last and the blob it got, wrote the keys it has SET.
NoBeat == [pc |-> "idle", claimUID |-> "", todo |-> {}, key |-> "",
           data |-> NoKey, wrote |-> {}]

\* What a Reconcile of the pkg/cache Reconciler leaves behind: the error it
\* returned, whether it ended in a panic instead of returning, and the call
\* that wrote the NodeCacheStatus ("create", "update" or "none"); and of a
\* Reconcile that reached the item loop the items it walked, the images of
\* the runtime when it ended, the image entries it built and the refs it ran
\* `crictl pull` for.
NoPkgResult ==
    [ran |-> FALSE, err |-> "", panicked |-> FALSE, call |-> "none",
     items |-> <<>>, images |-> {}, entries |-> <<>>, pulls |-> {}]

\* The node before the pkg/cache Reconciler has run: no image of the plan in
\* the host runtime, no repository under GitCachePath.
NoPkg == [images |-> {}, repos |-> {}, last |-> NoPkgResult]

Init ==
    /\ ledger = [n \in Nodes |-> EmptyLedger]
    /\ phase = "idle"
    /\ req = NoRequest
    /\ resp = NoResponse
    /\ lastReserved = NothingReserved
    /\ freed = {}
    /\ procs = [p \in Procs |-> IdleProc]
    /\ claimObj = [c \in Claims |-> NoClaim]
    /\ nodeReady = [n \in Nodes |-> TRUE]
    /\ ctlLast = NoReconcile
    /\ cachePlans = <<>>
    /\ nextRV = 1
    /\ now = 0
    /\ reconciler = [lastFullReconcile |-> ZeroTime, lastCachePlanHash |-> "",
                     currentImageStatus |-> [k \in StatusKeys |-> NoStatus],
                     dirs |-> [d \in {GitRepoItem.name} |-> FALSE]]
    /\ nodeCacheStatus = NoNodeCacheStatus
    /\ cacheLast = NoPass
    /\ beat = NoBeat
    /\ pkg = NoPkg
    /\ run = "idle"

(***************************************************************************)
(* Serialized requests to the agent of ThisNode: a request arrives, the    *)
(* handler runs to completion, the response leaves.                        *)
(***************************************************************************)
Receive(r) ==
    /\ phase = "idle"
    /\ phase' = "pending"
    /\ req' = r
    /\ UNCHANGED <<ledger, resp, lastReserved, freed, raceVars, ctlVars,
                   beatVars, cacheVars, pkgVars, runVars>>

HandleAllocate ==
    /\ phase = "pending"
    /\ req.op = "allocate"
    /\ LET out == handleAllocate(NodeAgent(ThisNode), ledger[ThisNode], req)
       IN /\ ledger' = [ledger EXCEPT ![ThisNode] = out.ledger]
          /\ resp' = out.resp
          /\ lastReserved' =
                IF out.resp.success
                THEN [claimUID |-> req.claimUID,
                      gpus |-> Range(out.resp.allocatedGPUs)]
                ELSE NothingReserved
    /\ phase' = "responded"
    /\ UNCHANGED <<req, freed, raceVars, ctlVars, beatVars, cacheVars, pkgVars,
                   runVars>>

HandleDeallocate ==
    /\ phase = "pending"
    /\ req.op = "deallocate"
    /\ LET out == handleDeallocate(NodeAgent(ThisNode), ledger[ThisNode], req)
       IN /\ ledger' = [ledger EXCEPT ![ThisNode] = out.ledger]
          /\ resp' = out.resp
    /\ phase' = "responded"
    /\ lastReserved' = IF lastReserved.claimUID = req.claimUID
                       THEN lastReserved ELSE NothingReserved
    /\ freed' = ledger[ThisNode].claimGPUs[req.claimUID]
    /\ UNCHANGED <<req, raceVars, ctlVars, beatVars, cacheVars, pkgVars,
                   runVars>>

HandleStatus ==
    /\ phase = "pending"
    /\ req.op = "status"
    /\ LET out == handleStatus(NodeAgent(ThisNode), ledger[ThisNode])
       IN /\ ledger' = [ledger EXCEPT ![ThisNode] = out.ledger]
          /\ resp' = out.resp
    /\ phase' = "responded"
    /\ lastReserved' = NothingReserved
    /\ UNCHANGED <<req, freed, raceVars, ctlVars, beatVars, cacheVars, pkgVars,
                   runVars>>

Respond ==
    /\ phase = "responded"
    /\ phase' = "idle"
    /\ req' = NoRequest
    /\ resp' = NoResponse
    /\ lastReserved' = IF req.op = "allocate" THEN lastReserved ELSE NothingReserved
    /\ freed' = {}
    /\ UNCHANGED <<ledger, raceVars, ctlVars, beatVars, cacheVars, pkgVars,
                   runVars>>

\* The legacy host-only client takes a GPU of ThisNode in its own domain.
HostReserve(k) ==
    /\ phase = "idle"
    /\ ledger[ThisNode].host[k].user = ""
    /\ ledger' = [ledger EXCEPT ![ThisNode].host[k] = GPUState("alice", "manual")]
    /\ lastReserved' = NothingReserved
    /\ UNCHANGED <<phase, req, resp, freed, raceVars, ctlVars, beatVars,
                   cacheVars, pkgVars, runVars>>

\* The legacy host-only client releases it.
HostRelease(k) ==
    /\ phase = "idle"
    /\ ledger[ThisNode].host[k].user # ""
    /\ ledger' = [ledger EXCEPT ![ThisNode].host[k] = ReleasedState]
    /\ lastReserved' = NothingReserved
    /\ UNCHANGED <<phase, req, resp, freed, raceVars, ctlVars, beatVars,
                   cacheVars, pkgVars, runVars>>

ReceiveAny ==
    \/ \E c \in Claims, n \in 0..MaxCount : Receive(AllocationRequest(c, n, <<>>))
    \/ \E c \in Claims, ids \in IDLists : Receive(AllocationRequest(c, 1, ids))
    \/ \E c \in Claims : Receive(DeallocationRequest(c))
    \/ Receive(StatusRequest)

Next ==
    \/ ReceiveAny
    \/ HandleAllocate
    \/ HandleDeallocate
    \/ HandleStatus
    \/ Respond
    \/ \E k \in GPUKeys : HostReserve(k)
    \/ \E k \in GPUKeys : HostRelease(k)

Spec == Init /\ [][Next]_vars

(***************************************************************************)
(* Two /allocate handlers of ThisNode's agent running interleaved: every   *)
(* Redis command of ReserveGPUsForClaim is a step of its own. The reads of *)
(* GetAvailableGPUs are taken as one step.                                 *)
(***************************************************************************)
RaceReceive(p, r) ==
    /\ procs[p].pc = "idle"
    /\ procs' = [procs EXCEPT ![p] = [IdleProc EXCEPT !.pc = "read", !.req = r]]
    /\ UNCHANGED <<ledger, agentVars, ctlVars, beatVars, cacheVars, pkgVars,
                   runVars>>

\* GetAvailableGPUs and "Select GPUs to allocate".
RaceSelect(p) ==
    /\ procs[p].pc = "read"
    /\ LET sel == SelectGPUs(procs[p].req, GetAvailableGPUs(ledger[ThisNode]))
       IN procs' = [procs EXCEPT ![p] =
            IF sel.error # ""
            THEN [@ EXCEPT !.pc = "done", !.resp = AllocationFailure(sel.error)]
            ELSE [@ EXCEPT !.pc = IF Len(sel.selected) = 0 THEN "sadd" ELSE "setState",
                           !.selected = sel.selected, !.i = 1]]
    /\ UNCHANGED <<ledger, agentVars, ctlVars, beatVars, cacheVars, pkgVars,
                   runVars>>

\* ReserveGPUsForClaim: SET of the GPU state of selected[i].
RaceSetGPUState(p) ==
    /\ procs[p].pc = "setState"
    /\ LET out == SetGPUState(ledger[ThisNode], procs[p].selected[procs[p].i],
                              procs[p].req.claimUID)
       IN /\ ledger' = [ledger EXCEPT ![ThisNode] = out.ledger]
          /\ procs' = [procs EXCEPT ![p] =
                IF out.err # ""
                THEN [@ EXCEPT !.pc = "done",
                               !.resp = AllocationFailure(MsgReserveFailed(out.err))]
                ELSE [@ EXCEPT !.pc = "setInfo"]]
    /\ UNCHANGED <<agentVars, ctlVars, beatVars, cacheVars, pkgVars, runVars>>

\* ReserveGPUsForClaim: SET of the reservation info of selected[i].
RaceSetClaimInfo(p) ==
    /\ procs[p].pc = "setInfo"
    /\ LET out == SetClaimInfo(ledger[ThisNode], procs[p].selected[procs[p].i],
                               procs[p].req.claimUID)
       IN /\ ledger' = [ledger EXCEPT ![ThisNode] = out.ledger]
          /\ procs' = [procs EXCEPT ![p] =
                IF out.err # ""
                THEN [@ EXCEPT !.pc = "done",
                               !.resp = AllocationFailure(MsgReserveFailed(out.err))]
                ELSE IF procs[p].i < Len(procs[p].selected)
                     THEN [@ EXCEPT !.pc = "setState", !.i = @ + 1]
                     ELSE [@ EXCEPT !.pc = "sadd"]]
    /\ UNCHANGED <<agentVars, ctlVars, beatVars, cacheVars, pkgVars, runVars>>

\* ReserveGPUsForClaim: SADD to the claim's set, then the response.
RaceSAdd(p) ==
    /\ procs[p].pc = "sadd"
    /\ LET out == SAddClaimGPUs(ledger[ThisNode], procs[p].selected,
                                procs[p].req.claimUID)
       IN /\ ledger' = [ledger EXCEPT ![ThisNode] = out.ledger]
          /\ procs' = [procs EXCEPT ![p] =
                IF out.err # ""
                THEN [@ EXCEPT !.pc = "done",
                               !.resp = AllocationFailure(MsgReserveFailed(out.err))]
                ELSE [@ EXCEPT !.pc = "done",
                               !.resp = AllocationSuccess(procs[p].selected,
                                                          NodeAgent(ThisNode).NodeName)]]
    /\ UNCHANGED <<agentVars, ctlVars, beatVars, cacheVars, pkgVars, runVars>>

RaceNext ==
    \/ \E p \in Procs, c \in Claims, n \in 0..MaxCount :
          RaceReceive(p, AllocationRequest(c, n, <<>>))
    \/ \E p \in Procs, c \in Claims, s \in IDStrings :
          RaceReceive(p, AllocationRequest(c, 1, <<s>>))
    \/ \E p \in Procs : RaceSelect(p)
    \/ \E p \in Procs : RaceSetGPUState(p)
    \/ \E p \in Procs : RaceSetClaimInfo(p)
    \/ \E p \in Procs : RaceSAdd(p)

\* Two interleaved /allocate requests on a fresh ledger.
SpecRace == Init /\ [][RaceNext]_vars

(***************************************************************************)
(* ResourceClaimController                                                 *)
(***************************************************************************)
\* req.Name of the reconcile request for the claim with UID c.
ClaimName(c) == "claim-" \o c

\* The claims that exist in the cluster the controller runs in.
ReconciledClaims == {"c1"}

\* claim.Spec.Devices.Requests, by the Count of each request.
ClaimRequests == {<<>>} \cup {<<n>> : n \in 1..MaxCount}

\* What the environment does to the calls of one Reconcile: get, list and
\* update are the results of r.Get, r.List and r.Update / r.Status().Update;
\* alloc is the fate of the POST to /allocate ("lost": the agent handled it
\* and the response did not arrive); down are the nodes whose agent does not
\* receive a POST to /deallocate.
NoFault ==
    [get |-> TRUE, list |-> TRUE, update |-> TRUE, alloc |-> "ok", down |-> {}]

\* One environment per combination of faults that a pass can tell apart.
CtlEnvs ==
    {[NoFault EXCEPT !.get = FALSE], [NoFault EXCEPT !.list = FALSE]}
        \cup {[NoFault EXCEPT !.alloc = a] : a \in {"lost", "unreachable"}}
        \cup {[NoFault EXCEPT !.update = u, !.down = d] :
                 u \in BOOLEAN, d \in SUBSET Nodes}

\* One outgoing call of a Reconcile: processed tells whether the callee
\* handled it, ok what the controller saw.
Call(op, node, claimUID, processed, ok) ==
    [op |-> op, node |-> node, claimUID |-> claimUID,
     processed |-> processed, ok |-> ok]

\* parseClaimParameters: GPUCount defaults to 1, GPUIDs is never set.
parseClaimParameters(claim) ==
    [GPUCount |-> IF Len(claim.requests) > 0 THEN claim.requests[1] ELSE 1,
     GPUIDs   |-> <<>>]

\* selectNode: the first ready node of the list.
selectNode(ready, e) ==
    LET readyAt == {i \in 1..Len(NodeOrder) : ready[NodeOrder[i]]}
    IN IF ~e.list THEN [node |-> "", err |-> "failed to list nodes"]
       ELSE IF readyAt = {} THEN [node |-> "", err |-> "no ready nodes found"]
       ELSE [node |-> NodeOrder[Min(readyAt)], err |-> ""]

\* requestAllocationFromNode, from the response of the agent on: out is what
\* handleAllocate did and answered.
AllocationOutcome(Lg, nodeName, e, out) ==
    [ledger |-> [Lg EXCEPT ![nodeName] = out.ledger],
     resp |-> out.resp, processed |-> TRUE,
     err |-> IF e.alloc = "lost"
             THEN "failed to make HTTP request to node agent"
             ELSE IF ~out.resp.success
             THEN "node agent allocation failed: " \o out.resp.error
             ELSE ""]

\* requestAllocationFromNode: POST /allocate to the agent of nodeName.
requestAllocationFromNode(Lg, nodeName, r, e) ==
    IF e.alloc = "unreachable"
    THEN [ledger |-> Lg, resp |-> NoResponse, processed |-> FALSE,
          err |-> "failed to make HTTP request to node agent"]
    ELSE AllocationOutcome(Lg, nodeName, e,
                           handleAllocate(NodeAgent(nodeName), Lg[nodeName], r))

\* requestDeallocationFromNode, from the response of the agent on: the
\* agent answers 200 whether the release succeeded or not, and the body, with
\* its success field, is not read.
DeallocationOutcome(Lg, nodeName, out) ==
    [ledger |-> [Lg EXCEPT ![nodeName] = out.ledger],
     processed |-> TRUE,
     err |-> ""]

\* requestDeallocationFromNode: POST /deallocate to the agent of nodeName.
requestDeallocationFromNode(Lg, nodeName, r, e) ==
    IF nodeName \in e.down
    THEN [ledger |-> Lg, processed |-> FALSE,
          err |-> "failed to make HTTP request to node agent"]
    ELSE DeallocationOutcome(Lg, nodeName,
                             handleDeallocate(NodeAgent(nodeName), Lg[nodeName], r))

\* Mutant: the compensating /deallocate goes to the first node of the list.
CompensationNode_FirstOfList(nodeName) == NodeOrder[1]

\* The node the compensating /deallocate of allocateResources is sent to.
CompensationNode(nodeName) == nodeName

\* What one pass returns: the new ledgers, the claim object as stored, the
\* calls made and the error.
PassResult(Lg, claim, calls, err) ==
    [ledger |-> Lg, claim |-> claim, calls |-> calls, err |-> err]

\* allocateResources after a failed r.Status().Update: the /deallocate to the
\* node, its error ignored, and the error of the update returned.
CompensateAllocation(c, claim, deallocNode, allocCall, dealloc) ==
    PassResult(dealloc.ledger, claim,
               <<allocCall, Call("statusUpdate", "", c, FALSE, FALSE),
                 Call("deallocate", deallocNode, c, dealloc.processed,
                      dealloc.err = "")>>,
               "failed to update claim status")

\* allocateResources from the answer of requestAllocationFromNode on.
AfterAllocationRequest(c, claim, e, nodeName, alloc, allocCall) ==
    IF alloc.err # ""
    THEN PassResult(alloc.ledger, claim, <<allocCall>>,
                    "failed to request allocation from node: " \o alloc.err)
    ELSE IF ~e.update
    THEN CompensateAllocation(c, claim, CompensationNode(nodeName), allocCall,
             requestDeallocationFromNode(alloc.ledger, CompensationNode(nodeName),
                                         DeallocationRequest(c), e))
    ELSE PassResult(alloc.ledger,
                    [claim EXCEPT !.allocation =
                        [node |-> nodeName, gpus |-> alloc.resp.allocatedGPUs]],
                    <<allocCall, Call("statusUpdate", "", c, TRUE, TRUE)>>, "")

\* The call record of the /allocate that was answered with alloc.
AllocateCall(c, nodeName, alloc) ==
    Call("allocate", nodeName, c, alloc.processed, alloc.err = "")

\* allocateResources from the selected node on.
AllocateOnNode(Lg, c, claim, e, nodeName, alloc) ==
    AfterAllocationRequest(c, claim, e, nodeName, alloc,
                           AllocateCall(c, nodeName, alloc))

\* allocateResources from the result of selectNode on.
AfterSelectNode(Lg, c, claim, e, params, sel) ==
    IF sel.err # ""
    THEN PassResult(Lg, claim, <<>>, "failed to select node: " \o sel.err)
    ELSE AllocateOnNode(Lg, c, claim, e, sel.node,
             requestAllocationFromNode(Lg, sel.node,
                 AllocationRequest(c, params.GPUCount, params.GPUIDs), e))

\* allocateResources.
allocateResources(Lg, c, claim, ready, e) ==
    AfterSelectNode(Lg, c, claim, e, parseClaimParameters(claim),
                    selectNode(ready, e))

\* One /deallocate of the loop of handleResourceClaimDeletion, followed by
\* the rest of the loop.
PrependDeallocation(nodeName, claimUID, out, rest) ==
    [ledger |-> rest.ledger,
     calls |-> <<Call("deallocate", nodeName, claimUID, out.processed,
                      out.err = "")>> \o rest.calls]

\* The loop of handleResourceClaimDeletion over nodes.Items[i..]: a
\* /deallocate to every ready node, errors ignored.
RECURSIVE DeallocateOnNodes(_, _, _, _, _)
DeallocateFrom(claimUID, ready, e, i, out) ==
    PrependDeallocation(NodeOrder[i], claimUID, out,
                        DeallocateOnNodes(out.ledger, claimUID, ready, e, i + 1))

DeallocateOnNodes(Lg, claimUID, ready, e, i) ==
    IF i > Len(NodeOrder)
    THEN [ledger |-> Lg, calls |-> <<>>]
    ELSE IF ~ready[NodeOrder[i]]
    THEN DeallocateOnNodes(Lg, claimUID, ready, e, i + 1)
    ELSE DeallocateFrom(claimUID, ready, e, i,
             requestDeallocationFromNode(Lg, NodeOrder[i],
                                         DeallocationRequest(claimUID), e))

\* handleResourceClaimDeletion.
handleResourceClaimDeletion(Lg, claim, claimUID, ready, e) ==
    IF ~e.list
    THEN PassResult(Lg, claim, <<>>, "failed to list nodes")
    ELSE PassResult(DeallocateOnNodes(Lg, claimUID, ready, e, 1).ledger, claim,
                    DeallocateOnNodes(Lg, claimUID, ready, e, 1).calls, "")

\* Reconcile of a claim with a deletion timestamp and the finalizer, from
\* the return of handleResourceClaimDeletion on: the finalizer is removed,
\* and with it the object.
RemoveFinalizer(c, e, cleanup) ==
    IF cleanup.err # ""
    THEN cleanup
    ELSE IF ~e.update
    THEN PassResult(cleanup.ledger, cleanup.claim,
                    cleanup.calls \o <<Call("update", "", c, FALSE, FALSE)>>,
                    "update failed")
    ELSE PassResult(cleanup.ledger, GoneClaim,
                    cleanup.calls \o <<Call("update", "", c, TRUE, TRUE)>>, "")

\* Reconcile of a claim without the finalizer: it is added.
AddFinalizer(Lg, c, claim, e) ==
    IF ~e.update
    THEN PassResult(Lg, claim, <<Call("update", "", c, FALSE, FALSE)>>,
                    "update failed")
    ELSE PassResult(Lg, [claim EXCEPT !.finalizer = TRUE],
                    <<Call("update", "", c, TRUE, TRUE)>>, "")

\* Mutant: Reconcile without the test of claim.Status.Allocation.
ReconcileResult_NoAllocationCheck(Lg, c, claim, ready, e) ==
    IF ~e.get
    THEN PassResult(Lg, claim, <<>>, "unable to fetch ResourceClaim")
    ELSE IF claim.phase = "gone"
    THEN handleResourceClaimDeletion(Lg, claim, ClaimName(c), ready, e)
    ELSE IF claim.deleting
    THEN IF ~claim.finalizer
         THEN PassResult(Lg, claim, <<>>, "")
         ELSE RemoveFinalizer(c, e,
                  handleResourceClaimDeletion(Lg, claim, c, ready, e))
    ELSE IF ~claim.finalizer
    THEN AddFinalizer(Lg, c, claim, e)
    ELSE allocateResources(Lg, c, claim, ready, e)

\* Reconcile of the request for the claim with UID c, up to its return.
ReconcileResult(Lg, c, claim, ready, e) ==
    IF ~e.get
    THEN PassResult(Lg, claim, <<>>, "unable to fetch ResourceClaim")
    ELSE IF claim.phase = "gone"
    THEN handleResourceClaimDeletion(Lg, claim, ClaimName(c), ready, e)
    ELSE IF claim.deleting
    THEN IF ~claim.finalizer
         THEN PassResult(Lg, claim, <<>>, "")
         ELSE RemoveFinalizer(c, e,
                  handleResourceClaimDeletion(Lg, claim, c, ready, e))
    ELSE IF ~claim.finalizer
    THEN AddFinalizer(Lg, c, claim, e)
    ELSE IF claim.allocation # NoAllocation
    THEN PassResult(Lg, claim, <<>>, "")
    ELSE allocateResources(Lg, c, claim, ready, e)

\* The ctrl.Result and error of the pass, with its calls.
ReconcileReturn(c, claim, out) ==
    [claimUID |-> c, calls |-> out.calls, err |-> out.err,
     requeue |-> \/ (out.err # "" /\ out.err # "unable to fetch ResourceClaim"
                        /\ out.err # "update failed")
                 \/ (out.err = "" /\ claim.phase = "present" /\ ~claim.deleting
                        /\ ~claim.finalizer)]

\* The effect of one Reconcile on the state.
ApplyReconcile(c, out) ==
    /\ ledger' = out.ledger
    /\ claimObj' = [claimObj EXCEPT ![c] = out.claim]
    /\ ctlLast' = ReconcileReturn(c, claimObj[c], out)

\* A ResourceClaim is created.
CreateClaim(c, requests) ==
    /\ claimObj[c].phase = "none"
    /\ claimObj' = [claimObj EXCEPT ![c] =
                       [NoClaim EXCEPT !.phase = "present", !.requests = requests]]
    /\ UNCHANGED <<ledger, agentVars, raceVars, cacheVars, pkgVars, beatVars,
                   nodeReady, ctlLast, runVars>>

\* A ResourceClaim is deleted: with a finalizer it gets its deletion
\* timestamp, without one it is gone.
DeleteClaim(c) ==
    /\ claimObj[c].phase = "present"
    /\ ~claimObj[c].deleting
    /\ claimObj' = [claimObj EXCEPT ![c] =
                       IF @.finalizer THEN [@ EXCEPT !.deleting = TRUE]
                       ELSE GoneClaim]
    /\ UNCHANGED <<ledger, agentVars, raceVars, cacheVars, pkgVars, beatVars,
                   nodeReady, ctlLast, runVars>>

\* The NodeReady condition of a node changes.
SetNodeReady(n, b) ==
    /\ nodeReady[n] # b
    /\ nodeReady' = [nodeReady EXCEPT ![n] = b]
    /\ UNCHANGED <<ledger, agentVars, raceVars, cacheVars, pkgVars, beatVars,
                   claimObj, ctlLast, runVars>>

\* One Reconcile of the request for claim c, from r.Get to its return.
ControllerReconcile(c, e) ==
    /\ claimObj[c].phase # "none"
    /\ ApplyReconcile(c, ReconcileResult(ledger, c, claimObj[c], nodeReady, e))
    /\ UNCHANGED <<agentVars, raceVars, cacheVars, pkgVars, beatVars,
                   nodeReady, runVars>>

CtlNext ==
    \/ \E c \in ReconciledClaims, requests \in ClaimRequests :
          CreateClaim(c, requests)
    \/ \E c \in ReconciledClaims : DeleteClaim(c)
    \/ \E n \in Nodes, b \in BOOLEAN : SetNodeReady(n, b)
    \/ \E c \in ReconciledClaims, e \in CtlEnvs : ControllerReconcile(c, e)

\* The controller, the API objects it reconciles and the agents it calls.
SpecCtl == Init /\ [][CtlNext]_vars

(***************************************************************************)
(* SimpleCacheReconciler                                                   *)
(***************************************************************************)
\* What the environment does to one Reconcile: list is the result of the
\* listing of the plans, gitAvailable that of git --version, pull that of
\* crictl pull, update that of the git commands on an existing directory
\* ("ok", "firstFails": fetch or pull fails, "resetFails"), clone that of
\* git clone, write that of the writes of the NodeCacheStatus.
NoCacheFault ==
    [list |-> TRUE, gitAvailable |-> TRUE, pull |-> TRUE, update |-> "ok",
     clone |-> TRUE, write |-> TRUE]
\* One environment per fault of a pass: at most one call or tool is faulty.
CacheEnvs ==
    {NoCacheFault,
     [NoCacheFault EXCEPT !.list = FALSE],
     [NoCacheFault EXCEPT !.write = FALSE],
     [NoCacheFault EXCEPT !.pull = FALSE],
     [NoCacheFault EXCEPT !.gitAvailable = FALSE],
     [NoCacheFault EXCEPT !.update = "firstFails"],
     [NoCacheFault EXCEPT !.update = "resetFails"],
     [NoCacheFault EXCEPT !.update = "firstFails", !.clone = FALSE]}

\* fmt.Sprintf("%v", item) of one item of spec.items: a map, keys sorted.
ItemString(item) ==
    IF item.type = "image"
    THEN "map[image:map[ref:" \o item.ref \o "] name:" \o item.name
             \o " type:image]"
    ELSE "map[gitRepo:map[branch:" \o item.branch \o " url:" \o item.ref
             \o "] name:" \o item.name \o " type:gitRepo]"

RECURSIVE ItemsString(_, _)
ItemsString(items, i) ==
    IF i > Len(items) THEN ""
    ELSE (IF i > 1 THEN " " ELSE "") \o ItemString(items[i])
             \o ItemsString(items, i + 1)

\* fmt.Sprintf("%v", plan.Object["spec"]).
SpecString(plan) == "map[items:[" \o ItemsString(plan.items, 1) \o "]]"

\* planData of calculatePlanHash for plans[j..].
RECURSIVE PlanData(_, _)
PlanData(plans, j) ==
    IF j > Len(plans) THEN ""
    ELSE ToString(plans[j].resourceVersion) \o SpecString(plans[j])
             \o PlanData(plans, j + 1)

\* fmt.Sprintf("%x", s): the hex digits of the bytes of s, written here as
\* the bytes themselves in a wrapper; the empty string has no digits.
Hex(s) == IF s = "" THEN "" ELSE "%x(" \o s \o ")"

\* calculatePlanHash.
calculatePlanHash(plans) == Hex(PlanData(plans, 1))

\* Mutant: every pass sees the plan as changed.
PlanChanged_Always(planHash, lastCachePlanHash) == TRUE

\* planChanged of processCachePlans.
PlanChanged(planHash, lastCachePlanHash) == planHash # lastCachePlanHash

\* Mutant: a full reconcile only when an hour has passed.
ShouldFullReconcile_HourlyOnly(planChanged, timeSinceLastFull) ==
    timeSinceLastFull >= Hour

\* Mutant: a full reconcile only when the plan changed.
ShouldFullReconcile_ChangeOnly(planChanged, timeSinceLastFull) == planChanged

\* shouldFullReconcile of processCachePlans.
ShouldFullReconcile(planChanged, timeSinceLastFull) ==
    planChanged \/ timeSinceLastFull >= Hour

\* The zero UpdateRequest.
NoUpdateRequest == [Timestamp |-> "", Force |-> FALSE]

\* Mutant: the annotations are not looked at.
checkForUpdateAnnotations_None(plan) == [name \in {} |-> NoUpdateRequest]

\* checkForUpdateAnnotations: the UpdateRequest of every name with an
\* update-repo-<name> annotation.
checkForUpdateAnnotations(plan) ==
    [name \in plan.annotations.update |->
        [Timestamp |-> "requested", Force |-> name \in plan.annotations.force]]

\* The accumulator of a pass: the reconciler's status map, the repository
\* directories on disk, the three result lists and the tools invoked.
PassState(status, dirs, images, gitRepos, errors, tools) ==
    [status |-> status, dirs |-> dirs, images |-> images,
     gitRepos |-> gitRepos, errors |-> errors, tools |-> tools]

\* The status map entry of an image after its pull.
ImageStatus(item, pullOK) ==
    [ref |-> item.ref, name |-> IF item.name = "" THEN item.ref ELSE item.name,
     branch |-> "", present |-> pullOK,
     status |-> IF pullOK THEN "ready" ELSE "failed",
     message |-> IF pullOK THEN "Pull completed successfully"
                 ELSE "Pull failed: crictl pull failed"]

\* Mutant: the entry appended to the results before the pull is a copy that
\* the outcome of the pull does not reach; it stays as it was appended.
processImageItem_CopiesEntry(acc, item, planChanged, e) ==
    IF ~planChanged /\ acc.status[ImageKey(item)] # NoStatus
    THEN [acc EXCEPT !.images = Append(@, acc.status[ImageKey(item)])]
    ELSE [acc EXCEPT
            !.status[ImageKey(item)] = ImageStatus(item, e.pull),
            !.images = Append(@, [ImageStatus(item, e.pull) EXCEPT
                                     !.present = FALSE, !.status = "pulling",
                                     !.message = "Pulling image..."]),
            !.tools = Append(@, "crictl pull " \o item.ref),
            !.errors = IF e.pull THEN @
                       ELSE Append(@, "Failed to pull image " \o item.ref)]

\* Mutant: the entry of an image goes to the list of the repositories.
processImageItem_AsRepo(acc, item, planChanged, e) ==
    IF ~planChanged /\ acc.status[ImageKey(item)] # NoStatus
    THEN [acc EXCEPT !.gitRepos = Append(@, acc.status[ImageKey(item)])]
    ELSE [acc EXCEPT
            !.status[ImageKey(item)] = ImageStatus(item, e.pull),
            !.gitRepos = Append(@, ImageStatus(item, e.pull)),
            !.tools = Append(@, "crictl pull " \o item.ref),
            !.errors = IF e.pull THEN @
                       ELSE Append(@, "Failed to pull image " \o item.ref)]

\* processImageItem.
processImageItem(acc, item, planChanged, e) ==
    IF ~planChanged /\ acc.status[ImageKey(item)] # NoStatus
    THEN [acc EXCEPT !.images = Append(@, acc.status[ImageKey(item)])]
    ELSE [acc EXCEPT
            !.status[ImageKey(item)] = ImageStatus(item, e.pull),
            !.images = Append(@, ImageStatus(item, e.pull)),
            !.tools = Append(@, "crictl pull " \o item.ref),
            !.errors = IF e.pull THEN @
                       ELSE Append(@, "Failed to pull image " \o item.ref)]

\* The result of cloneGitRepo: the directories, the git commands run on the
\* repository (git --version is not listed), and the error.
GitResult(dirs, tools, err) == [dirs |-> dirs, tools |-> tools, err |-> err]

\* cloneGitRepo, "Fresh clone": done ran before it.
FreshClone(dirs, item, pathName, e, done) ==
    IF e.clone
    THEN GitResult([dirs EXCEPT ![pathName] = TRUE],
                   Append(done, "git clone " \o item.ref), "")
    ELSE GitResult([dirs EXCEPT ![pathName] = FALSE],
                   Append(done, "git clone " \o item.ref), "git clone failed")

\* cloneGitRepo.
cloneGitRepo(dirs, item, pathName, force, e) ==
    IF ~e.gitAvailable
    THEN GitResult(dirs, <<>>, "git not available")
    ELSE IF ~dirs[pathName]
    THEN FreshClone(dirs, item, pathName, e, <<>>)
    ELSE IF force
    THEN IF e.update = "firstFails"
         THEN FreshClone(dirs, item, pathName, e, <<"git fetch " \o item.ref>>)
         ELSE IF e.update = "resetFails"
         THEN FreshClone(dirs, item, pathName, e,
                         <<"git fetch " \o item.ref, "git reset " \o item.ref>>)
         ELSE GitResult(dirs, <<"git fetch " \o item.ref,
                                "git reset " \o item.ref>>, "")
    ELSE IF e.update = "firstFails"
         THEN FreshClone(dirs, item, pathName, e, <<"git pull " \o item.ref>>)
         ELSE GitResult(dirs, <<"git pull " \o item.ref>>, "")

\* The status map entry of a git repository after cloneGitRepo.
RepoStatus(item, ok) ==
    [ref |-> item.ref, name |-> IF item.name = "" THEN item.ref ELSE item.name,
     branch |-> item.branch, present |-> ok,
     status |-> IF ok THEN "ready" ELSE "failed",
     message |-> IF ok THEN "Clone completed successfully"
                 ELSE "Clone failed"]

\* processGitRepoItem from the return of cloneGitRepo on.
AfterClone(acc, item, git) ==
    [acc EXCEPT
        !.status[RepoKey(item)] = RepoStatus(item, git.err = ""),
        !.dirs = git.dirs,
        !.gitRepos = Append(@, RepoStatus(item, git.err = "")),
        !.tools = @ \o git.tools,
        !.errors = IF git.err = "" THEN @
                   ELSE Append(@, "Failed to clone git repo " \o item.ref)]

\* processGitRepoItem.
processGitRepoItem(acc, item, shouldUpdate, updateRequest, e) ==
    IF ~shouldUpdate /\ acc.status[RepoKey(item)] # NoStatus
    THEN [acc EXCEPT !.gitRepos = Append(@, acc.status[RepoKey(item)])]
    ELSE AfterClone(acc, item,
             cloneGitRepo(acc.dirs, item,
                          IF item.name = "" THEN item.ref ELSE item.name,
                          updateRequest.Force, e))

\* One item of the loop over the items of a plan.
ProcessItem(acc, item, planChanged, updateRequests, e) ==
    IF item.type = "image"
    THEN processImageItem(acc, item, planChanged, e)
    ELSE IF item.type = "gitRepo"
    THEN processGitRepoItem(acc, item,
             planChanged \/ item.name \in DOMAIN updateRequests,
             IF item.name \in DOMAIN updateRequests
             THEN updateRequests[item.name] ELSE NoUpdateRequest, e)
    ELSE acc

\* Mutant: the loop over the items stops at the first error.
RECURSIVE ProcessItems_StopOnError(_, _, _, _, _, _)
ProcessItems_StopOnError(acc, items, i, planChanged, updateRequests, e) ==
    IF i > Len(items) \/ acc.errors # <<>> THEN acc
    ELSE ProcessItems_StopOnError(
             ProcessItem(acc, items[i], planChanged, updateRequests, e),
             items, i + 1, planChanged, updateRequests, e)

\* The loop over items[i..] of one plan.
RECURSIVE ProcessItems(_, _, _, _, _, _)
ProcessItems(acc, items, i, planChanged, updateRequests, e) ==
    IF i > Len(items) THEN acc
    ELSE ProcessItems(ProcessItem(acc, items[i], planChanged, updateRequests, e),
                      items, i + 1, planChanged, updateRequests, e)

\* The loop over cachePlans[j..].
RECURSIVE ProcessPlans(_, _, _, _, _)
ProcessPlans(acc, plans, j, planChanged, e) ==
    IF j > Len(plans) THEN acc
    ELSE ProcessPlans(
             ProcessItems(acc, plans[j].items, 1, planChanged,
                          checkForUpdateAnnotations(plans[j]), e),
             plans, j + 1, planChanged, e)

\* The keys that contain "#", and the refs that contain "github.com",
\* "gitlab.com" or ".git".
KeysWithHash == {RepoKey(GitRepoItem)}
RefsWithGitMarker == {}

\* Whether getCurrentStatus puts the entry under key into the repos list.
IsRepoEntry(key, entry) == key \in KeysWithHash \/ entry.ref \in RefsWithGitMarker

\* getCurrentStatus: the entries of the map in the iteration order the
\* runtime picked, images and repos apart.
RECURSIVE CurrentStatusFrom(_, _, _)
CurrentStatusFrom(status, order, i) ==
    IF i > Len(order) THEN [images |-> <<>>, gitRepos |-> <<>>]
    ELSE IF status[order[i]] = NoStatus
    THEN CurrentStatusFrom(status, order, i + 1)
    ELSE IF IsRepoEntry(order[i], status[order[i]])
    THEN [CurrentStatusFrom(status, order, i + 1) EXCEPT
             !.gitRepos = <<status[order[i]]>> \o @]
    ELSE [CurrentStatusFrom(status, order, i + 1) EXCEPT
             !.images = <<status[order[i]]>> \o @]

getCurrentStatus(status, order) == CurrentStatusFrom(status, order, 1)

\* What processCachePlans leaves: the reconciler's fields, the directories
\* and what the pass did and returns.
CachePassResult(lastFull, lastHash, full, acc) ==
    [lastFullReconcile |-> lastFull, lastCachePlanHash |-> lastHash,
     full |-> full, acc |-> acc]

\* processCachePlans from the decision on.
ProcessOrSkip(r, plans, t, planHash, planChanged, e, order) ==
    IF ShouldFullReconcile(planChanged, t - r.lastFullReconcile)
    THEN CachePassResult(t, IF planChanged THEN planHash ELSE r.lastCachePlanHash,
             TRUE,
             ProcessPlans(PassState(r.currentImageStatus, r.dirs, <<>>, <<>>,
                                    <<>>, <<>>),
                          plans, 1, planChanged, e))
    ELSE CachePassResult(r.lastFullReconcile, r.lastCachePlanHash, FALSE,
             PassState(r.currentImageStatus, r.dirs,
                       getCurrentStatus(r.currentImageStatus, order).images,
                       getCurrentStatus(r.currentImageStatus, order).gitRepos,
                       <<>>, <<>>))

\* processCachePlans at time t: r holds the reconciler's fields and the
\* directories on disk, plans what the cluster lists.
processCachePlans(r, plans, t, e, order) ==
    IF ~e.list
    THEN CachePassResult(r.lastFullReconcile, r.lastCachePlanHash, FALSE,
             PassState(r.currentImageStatus, r.dirs, <<>>, <<>>,
                       <<"Failed to get cache plans">>, <<>>))
    ELSE ProcessOrSkip(r, plans, t, calculatePlanHash(plans),
             PlanChanged(calculatePlanHash(plans), r.lastCachePlanHash),
             e, order)

\* Mutant: the object is only updated, never created.
updateNodeCacheStatus_UpdateOnly(existing, images, gitRepos, errors, e) ==
    IF ~e.write \/ ~existing.exists
    THEN [object |-> existing, err |-> "failed to write NodeCacheStatus"]
    ELSE [object |-> [exists |-> TRUE, images |-> images,
                      gitRepos |-> gitRepos, errors |-> errors],
          err |-> ""]

\* updateNodeCacheStatus: the object is created when the Get does not return
\* it, then its status is written with UpdateStatus. With e.write false the
\* call that writes fails and the object stays as it was found.
updateNodeCacheStatus(existing, images, gitRepos, errors, e) ==
    IF ~e.write
    THEN [object |-> existing, err |-> "failed to write NodeCacheStatus"]
    ELSE [object |-> [exists |-> TRUE, images |-> images,
                      gitRepos |-> gitRepos, errors |-> errors],
          err |-> ""]

\* A CachePlan is created, or the spec of the existing one is replaced.
SetPlanItems(items) ==
    /\ nextRV <= MaxRevisions
    /\ \/ cachePlans = <<>>
       \/ cachePlans # <<>> /\ cachePlans[1].items # items
    /\ cachePlans' = <<[resourceVersion |-> nextRV, items |-> items,
                        annotations |-> IF cachePlans = <<>> THEN NoAnnotations
                                        ELSE cachePlans[1].annotations]>>
    /\ nextRV' = nextRV + 1
    /\ UNCHANGED <<ledger, agentVars, raceVars, ctlVars, beatVars, pkgVars,
                   now, reconciler, nodeCacheStatus, cacheLast, runVars>>

\* The update annotations of the CachePlan are changed.
AnnotatePlan(a) ==
    /\ nextRV <= MaxRevisions
    /\ cachePlans # <<>>
    /\ cachePlans[1].annotations # a
    /\ cachePlans' = <<[cachePlans[1] EXCEPT !.resourceVersion = nextRV,
                                             !.annotations = a]>>
    /\ nextRV' = nextRV + 1
    /\ UNCHANGED <<ledger, agentVars, raceVars, ctlVars, beatVars, pkgVars,
                   now, reconciler, nodeCacheStatus, cacheLast, runVars>>

\* The CachePlan is deleted.
DeletePlan ==
    /\ cachePlans # <<>>
    /\ cachePlans' = <<>>
    /\ UNCHANGED <<ledger, agentVars, raceVars, ctlVars, beatVars, pkgVars,
                   nextRV, now, reconciler, nodeCacheStatus, cacheLast,
                   runVars>>

\* Half an hour passes.
Tick ==
    /\ now < MaxTime
    /\ now' = now + 1
    /\ UNCHANGED <<ledger, agentVars, raceVars, ctlVars, beatVars, pkgVars,
                   cachePlans, nextRV, reconciler, nodeCacheStatus, cacheLast,
                   runVars>>

\* The effect of one Reconcile: out is what processCachePlans did, written
\* what updateNodeCacheStatus did.
ApplyCachePass(e, out, written) ==
    /\ reconciler' = [lastFullReconcile |-> out.lastFullReconcile,
                      lastCachePlanHash |-> out.lastCachePlanHash,
                      currentImageStatus |-> out.acc.status,
                      dirs |-> out.acc.dirs]
    /\ nodeCacheStatus' = written.object
    /\ cacheLast' = [fetched |-> e.list,
                     plans |-> IF e.list THEN cachePlans ELSE <<>>,
                     samePlans |-> /\ e.list /\ cacheLast.fetched
                                   /\ cachePlans = cacheLast.plans,
                     hourPassed |-> now - reconciler.lastFullReconcile >= Hour,
                     full |-> out.full, tools |-> out.acc.tools,
                     err |-> written.err]

\* Reconcile, from the results of processCachePlans on.
PublishCachePass(e, out) ==
    ApplyCachePass(e, out,
        updateNodeCacheStatus(nodeCacheStatus, out.acc.images, out.acc.gitRepos,
                              out.acc.errors, e))

\* One Reconcile of the cache reconciler.
CacheReconcile(e, order) ==
    /\ PublishCachePass(e, processCachePlans(reconciler, cachePlans, now, e, order))
    /\ UNCHANGED <<ledger, agentVars, raceVars, ctlVars, beatVars, pkgVars,
                   cachePlans, nextRV, now, runVars>>

CacheNext ==
    \/ \E items \in ItemLists : SetPlanItems(items)
    \/ \E a \in AnnotationSets : AnnotatePlan(a)
    \/ DeletePlan
    \/ Tick
    \/ \E e \in CacheEnvs, order \in KeyOrders : CacheReconcile(e, order)

\* The cache reconciler of one node, the plan it follows and the clock.
SpecCache == Init /\ [][CacheNext]_vars

(***************************************************************************)
(* The ledger client with Redis commands that fail, and the agent on it.   *)
(***************************************************************************)
\* The reads of one GetAvailableGPUs call that fail with an error other than
\* redis.Nil: the GET of gpu_count, and the GETs of the cluster-managed and
\* host-managed keys of the ids named.
NoReadFault == [count |-> FALSE, k8s |-> {}, host |-> {}]
ReadFaults ==
    {NoReadFault, [NoReadFault EXCEPT !.count = TRUE]}
        \cup {[NoReadFault EXCEPT !.k8s = {k}] : k \in GPUKeys}
        \cup {[NoReadFault EXCEPT !.host = {k}] : k \in GPUKeys}

\* The loop of GetAvailableGPUs from i on, with the reads f failing.
RECURSIVE AvailableFromWith(_, _, _)
AvailableFromWith(L, f, i) ==
    IF i >= L.gpuCount
    THEN <<>>
    ELSE IF Itoa(i) \in f.k8s THEN AvailableFromWith(L, f, i + 1)
    ELSE IF Itoa(i) \in f.host THEN AvailableFromWith(L, f, i + 1)
    ELSE (IF SlotAvailable(L.gpu[Itoa(i)]) /\ SlotAvailable(L.host[Itoa(i)])
          THEN <<i>> ELSE <<>>) \o AvailableFromWith(L, f, i + 1)

\* GetAvailableGPUs with the reads f failing: the list and the error.
GetAvailableGPUsWith(L, f) ==
    IF f.count
    THEN [available |-> <<>>, err |-> "failed to get GPU count"]
    ELSE [available |-> AvailableFromWith(L, f, 0), err |-> ""]

\* The write commands of one ReserveGPUsForClaim call are numbered from 1 in
\* the order they are sent; failAt is the one that fails, 0 for none. A
\* command that fails changes nothing.
WriteFaults == 0..(2 * MaxCount + 1)

\* The loop of ReserveGPUsForClaim over gpuIDs[i..] with command failAt
\* failing.
RECURSIVE ReserveLoopWith(_, _, _, _, _)
ReserveLoopWith(L, gpuIDs, claimUID, i, failAt) ==
    IF i > Len(gpuIDs)
    THEN [ledger |-> L, err |-> ""]
    ELSE IF failAt = 2 * i - 1
    THEN [ledger |-> L, err |-> "failed to set GPU state"]
    ELSE IF failAt = 2 * i
    THEN [ledger |-> SetGPUState(L, gpuIDs[i], claimUID).ledger,
          err |-> "failed to set claim info"]
    ELSE ReserveLoopWith(
             SetClaimInfo(SetGPUState(L, gpuIDs[i], claimUID).ledger,
                          gpuIDs[i], claimUID).ledger,
             gpuIDs, claimUID, i + 1, failAt)

\* ReserveGPUsForClaim from the end of its loop on.
AfterReserveLoop(loop, gpuIDs, claimUID, failAt) ==
    IF loop.err # "" THEN loop
    ELSE IF failAt = 2 * Len(gpuIDs) + 1
    THEN [ledger |-> loop.ledger, err |-> "failed to store claim GPU mapping"]
    ELSE SAddClaimGPUs(loop.ledger, gpuIDs, claimUID)

\* ReserveGPUsForClaim with command failAt failing.
ReserveGPUsForClaimWith(L, gpuIDs, claimUID, failAt) ==
    AfterReserveLoop(ReserveLoopWith(L, gpuIDs, claimUID, 1, failAt),
                     gpuIDs, claimUID, failAt)

\* handleAllocate from the return of ReserveGPUsForClaim on.
AfterReserve(na, sel, res) ==
    IF res.err # ""
    THEN [ledger |-> res.ledger,
          resp |-> AllocationFailure(MsgReserveFailed(res.err))]
    ELSE [ledger |-> res.ledger,
          resp |-> AllocationSuccess(sel.selected, na.NodeName)]

\* handleAllocate from the selection of the GPUs on.
AfterSelect(na, L, r, sel, failAt) ==
    IF sel.error # ""
    THEN [ledger |-> L, resp |-> AllocationFailure(sel.error)]
    ELSE AfterReserve(na, sel,
             ReserveGPUsForClaimWith(L, sel.selected, r.claimUID, failAt))

\* handleAllocate from the return of GetAvailableGPUs on.
AfterGetAvailable(na, L, r, got, failAt) ==
    IF got.err # ""
    THEN [ledger |-> L,
          resp |-> AllocationFailure("Failed to get available GPUs: " \o got.err)]
    ELSE AfterSelect(na, L, r, SelectGPUs(r, got.available), failAt)

\* handleAllocate with the reads f and the write failAt failing.
handleAllocateWith(na, L, r, f, failAt) ==
    AfterGetAvailable(na, L, r, GetAvailableGPUsWith(L, f), failAt)

\* The blob UpdateHeartbeat writes back: the one it read, LastHeartbeat set
\* (timestamps are left out of the blobs here).
HeartbeatState(data) == data

\* UpdateHeartbeat, run without another call in between: of the members of
\* the claim's set, the keys it writes, which are those that have a blob.
HeartbeatKeys(L, claimUID) ==
    {k \in L.claimGPUs[claimUID] : k \in GPUKeys /\ L.gpu[k].present}

\* UpdateHeartbeat, run without another call in between.
UpdateHeartbeat(L, claimUID) ==
    [L EXCEPT !.gpu = [k \in GPUKeys |->
                          IF k \in HeartbeatKeys(L, claimUID)
                          THEN HeartbeatState(L.gpu[k]) ELSE L.gpu[k]]]

\* /allocate is handled with one ledger command failing, or none.
HandleAllocateWith(f, failAt) ==
    /\ phase = "pending"
    /\ req.op = "allocate"
    /\ f = NoReadFault \/ failAt = 0
    /\ LET out == handleAllocateWith(NodeAgent(ThisNode), ledger[ThisNode],
                                     req, f, failAt)
       IN /\ ledger' = [ledger EXCEPT ![ThisNode] = out.ledger]
          /\ resp' = out.resp
          /\ lastReserved' =
                IF out.resp.success
                THEN [claimUID |-> req.claimUID,
                      gpus |-> Range(out.resp.allocatedGPUs)]
                ELSE NothingReserved
    /\ phase' = "responded"
    /\ UNCHANGED <<req, freed, raceVars, ctlVars, cacheVars, pkgVars, beatVars,
                   runVars>>

\* A call of UpdateHeartbeat for claimUID, queued like a request.
HeartbeatCall(claimUID) ==
    [op |-> "heartbeat", claimUID |-> claimUID, gpuCount |-> 0, gpuIDs |-> <<>>]

\* A whole UpdateHeartbeat call, run in its turn; it returns nil.
HandleHeartbeat ==
    /\ phase = "pending"
    /\ req.op = "heartbeat"
    /\ ledger' = [ledger EXCEPT ![ThisNode] = UpdateHeartbeat(@, req.claimUID)]
    /\ resp' = [success |-> TRUE, allocatedGPUs |-> <<>>, nodeName |-> "",
                error |-> ""]
    /\ phase' = "responded"
    /\ UNCHANGED <<req, lastReserved, freed, raceVars, ctlVars, cacheVars,
                   pkgVars, beatVars, runVars>>

LedgerNext ==
    \/ ReceiveAny
    \/ \E f \in ReadFaults, failAt \in WriteFaults : HandleAllocateWith(f, failAt)
    \/ HandleDeallocate
    \/ HandleStatus
    \/ Respond
    \/ \E c \in Claims : Receive(HeartbeatCall(c))
    \/ HandleHeartbeat

\* The node agent handling one request at a time on a ledger whose commands
\* may fail, and the heartbeats of the claims.
SpecLedger == Init /\ [][LedgerNext]_vars

(***************************************************************************)
(* UpdateHeartbeat running interleaved with the agent's handlers: every    *)
(* Redis command of UpdateHeartbeat is a step of its own, and a handler    *)
(* runs whole between two of them.                                         *)
(***************************************************************************)
\* SMEMBERS of the claim's set.
BeatSMembers(claimUID) ==
    /\ beat.pc = "idle"
    /\ beat' = [NoBeat EXCEPT !.pc = "loop", !.claimUID = claimUID,
                              !.todo = ledger[ThisNode].claimGPUs[claimUID]]
    /\ UNCHANGED <<ledger, agentVars, raceVars, ctlVars, cacheVars, pkgVars,
                   runVars>>

\* GET of the GPU key of the member k: a key that is missing is skipped.
BeatGet(k) ==
    /\ beat.pc = "loop"
    /\ k \in beat.todo
    /\ beat' = IF ledger[ThisNode].gpu[k].present
               THEN [beat EXCEPT !.pc = "got", !.key = k,
                                 !.data = ledger[ThisNode].gpu[k]]
               ELSE [beat EXCEPT !.todo = @ \ {k}]
    /\ UNCHANGED <<ledger, agentVars, raceVars, ctlVars, cacheVars, pkgVars,
                   runVars>>

\* SET of the GPU key with the blob that was read, LastHeartbeat set.
BeatSet ==
    /\ beat.pc = "got"
    /\ ledger' = [ledger EXCEPT ![ThisNode].gpu[beat.key] = HeartbeatState(beat.data)]
    /\ beat' = [beat EXCEPT !.pc = "loop", !.todo = @ \ {beat.key},
                            !.wrote = @ \cup {beat.key}]
    /\ UNCHANGED <<agentVars, raceVars, ctlVars, cacheVars, pkgVars, runVars>>

\* The loop is over and UpdateHeartbeat returns.
BeatReturn ==
    /\ beat.pc = "loop"
    /\ beat.todo = {}
    /\ beat' = NoBeat
    /\ UNCHANGED <<ledger, agentVars, raceVars, ctlVars, cacheVars, pkgVars,
                   runVars>>

BeatNext ==
    \/ \E c \in Claims, n \in 1..MaxCount : Receive(AllocationRequest(c, n, <<>>))
    \/ \E c \in Claims : Receive(DeallocationRequest(c))
    \/ HandleAllocate
    \/ HandleDeallocate
    \/ Respond
    \/ \E c \in Claims : BeatSMembers(c)
    \/ \E k \in GPUKeys : BeatGet(k)
    \/ BeatSet
    \/ BeatReturn

\* The agent's /allocate and /deallocate, one at a time, and one
\* UpdateHeartbeat at a time running beside them.
SpecBeat == Init /\ [][BeatNext]_vars

(***************************************************************************)
(* The Reconciler of pkg/cache.                                            *)
(***************************************************************************)
\* r.criType as detectCRI set it when the Reconciler was made: the node has
\* the CRI-O socket.
CRIType == "crio"

\* The faults of one Reconcile of the pkg/cache Reconciler: planGet is the
\* Get of the CachePlan failing with an error other than not-found, mkdir
\* that of os.MkdirAll, check that of `crictl images`, pull, clone and sync
\* those of `crictl pull`, `git clone` and the git commands of syncRepo,
\* lookup the Get of the NodeCacheStatus failing with an error other than
\* not-found, write that of the Create or Update. verify is false when the
\* `crictl images` that follows a pull does not list the ref among the
\* repoTags of any image.
NoPkgFault ==
    [planGet |-> TRUE, mkdir |-> TRUE, check |-> TRUE, pull |-> TRUE,
     verify |-> TRUE, clone |-> TRUE, sync |-> TRUE, lookup |-> TRUE,
     write |-> TRUE]
\* One environment per fault of a pass: at most one call or tool is faulty.
PkgEnvs ==
    {NoPkgFault,
     [NoPkgFault EXCEPT !.planGet = FALSE],
     [NoPkgFault EXCEPT !.mkdir = FALSE],
     [NoPkgFault EXCEPT !.check = FALSE],
     [NoPkgFault EXCEPT !.pull = FALSE],
     [NoPkgFault EXCEPT !.verify = FALSE],
     [NoPkgFault EXCEPT !.clone = FALSE],
     [NoPkgFault EXCEPT !.sync = FALSE],
     [NoPkgFault EXCEPT !.lookup = FALSE],
     [NoPkgFault EXCEPT !.write = FALSE]}

\* types.NodeCacheStatusData while Reconcile fills it, with the node beside
\* it: the images of the host runtime (the repoTags `crictl images` lists),
\* the repositories on disk and the refs `crictl pull` was run for.
PkgPass(images, repos, pulls, imageStatus, repoStatus, errors) ==
    [images |-> images, repos |-> repos, pulls |-> pulls,
     imageStatus |-> imageStatus, repoStatus |-> repoStatus,
     errors |-> errors]

\* types.ImageStatus.
PkgImageStatus(item, present, message) ==
    [ref |-> item.ref, present |-> present, message |-> message]

\* reconcileImage without the early return for an image that is present:
\* `crictl pull` is run for every image.
reconcileImage_AlwaysPull(acc, item, e) ==
    IF ~e.check
    THEN [acc EXCEPT !.imageStatus =
             Append(@, PkgImageStatus(item, FALSE, "Failed to check image"))]
    ELSE IF ~e.pull
    THEN [acc EXCEPT
             !.pulls = @ \cup {item.ref},
             !.imageStatus =
                 Append(@, PkgImageStatus(item, FALSE, "Failed to pull image"))]
    ELSE [acc EXCEPT
             !.images = @ \cup {item.ref},
             !.pulls = @ \cup {item.ref},
             !.imageStatus =
                 Append(@, PkgImageStatus(item, e.verify,
                                          "Successfully pulled via " \o CRIType))]

\* reconcileImage: the pass with the entry of the image appended.
reconcileImage(acc, item, e) ==
    IF CRIType = ""
    THEN [acc EXCEPT !.imageStatus =
             Append(@, PkgImageStatus(item, FALSE, "No container runtime detected"))]
    ELSE IF ~e.check
    THEN [acc EXCEPT !.imageStatus =
             Append(@, PkgImageStatus(item, FALSE, "Failed to check image"))]
    ELSE IF item.ref \in acc.images
    THEN [acc EXCEPT !.imageStatus =
             Append(@, PkgImageStatus(item, TRUE, "Present via " \o CRIType))]
    ELSE IF ~e.pull
    THEN [acc EXCEPT
             !.pulls = @ \cup {item.ref},
             !.imageStatus =
                 Append(@, PkgImageStatus(item, FALSE, "Failed to pull image"))]
    ELSE IF ~e.verify
    THEN [acc EXCEPT
             !.pulls = @ \cup {item.ref},
             !.imageStatus =
                 Append(@, PkgImageStatus(item, FALSE,
                     "Image pull appeared to succeed but image not found"))]
    ELSE [acc EXCEPT
             !.images = @ \cup {item.ref},
             !.pulls = @ \cup {item.ref},
             !.imageStatus =
                 Append(@, PkgImageStatus(item, TRUE,
                                          "Successfully pulled via " \o CRIType))]

\* types.GitRepoStatus.
PkgRepoStatus(item, synced, message) ==
    [name |-> item.name, url |-> item.ref, branch |-> item.branch,
     synced |-> synced, message |-> message]

\* reconcileGitRepo: a repository without .git is cloned, then every
\* repository is synced; the pass with the entry of the repository appended.
reconcileGitRepo(acc, item, e) ==
    IF item.name \notin acc.repos /\ ~e.clone
    THEN [acc EXCEPT !.repoStatus =
             Append(@, PkgRepoStatus(item, FALSE, "Failed to clone repository"))]
    ELSE IF ~e.sync
    THEN [acc EXCEPT
             !.repos = @ \cup {item.name},
             !.repoStatus =
                 Append(@, PkgRepoStatus(item, FALSE, "Failed to sync repository"))]
    ELSE [acc EXCEPT
             !.repos = @ \cup {item.name},
             !.repoStatus =
                 Append(@, PkgRepoStatus(item, TRUE, "Successfully synced"))]

\* The loop of Reconcile over plan.Spec.Items[i..].
RECURSIVE PkgItems(_, _, _, _)
PkgItems(acc, items, i, e) ==
    IF i > Len(items) THEN acc
    ELSE PkgItems(IF items[i].type = "image"
                  THEN reconcileImage(acc, items[i], e)
                  ELSE IF items[i].type = "gitRepo"
                  THEN reconcileGitRepo(acc, items[i], e)
                  ELSE acc,
                  items, i + 1, e)

\* What Reconciler.updateNodeCacheStatus returns or leaves.
PkgWrite(object, err, panicked, call) ==
    [object |-> object, err |-> err, panicked |-> panicked, call |-> call]

\* Reconciler.updateNodeCacheStatus. err of the Get is assigned again by the
\* conversion of the status, which succeeds, so errors.IsNotFound(err) is
\* asked of nil and the Create branch is never taken: the Update branch reads
\* the resource version of existing, which is nil when the Get found nothing.
PkgUpdateNodeCacheStatus(existing, statusData, e) ==
    IF ~e.lookup
    THEN PkgWrite(existing, "failed to get existing NodeCacheStatus", FALSE, "none")
    ELSE IF ~existing.exists
    THEN PkgWrite(existing, "", TRUE, "none")
    ELSE IF ~e.write
    THEN PkgWrite(existing, "failed to update NodeCacheStatus", FALSE, "none")
    ELSE PkgWrite([exists |-> TRUE, images |-> statusData.imageStatus,
                   gitRepos |-> statusData.repoStatus,
                   errors |-> statusData.errors],
                  "", FALSE, "update")

\* Reconcile of the pkg/cache Reconciler from the plan on: the status is
\* filled item by item and written.
PkgReconcilePlan(node, plan, object, e) ==
    LET acc == PkgItems(
                   PkgPass(node.images, node.repos, {}, <<>>, <<>>,
                           IF e.mkdir THEN <<>>
                           ELSE <<"Failed to create cache directories">>),
                   plan.items, 1, e)
    IN  [node |-> acc, written |-> PkgUpdateNodeCacheStatus(object, acc, e)]

\* One Reconcile of the pkg/cache Reconciler. Without a CachePlan it returns
\* nil and writes nothing; a Get of the plan that fails is returned.
PkgReconcile(e) ==
    /\ IF ~e.planGet
       THEN /\ pkg' = [pkg EXCEPT !.last =
                          [NoPkgResult EXCEPT
                              !.ran = TRUE, !.err = "failed to get CachePlan"]]
            /\ UNCHANGED nodeCacheStatus
       ELSE IF cachePlans = <<>>
       THEN /\ pkg' = [pkg EXCEPT !.last =
                          [NoPkgResult EXCEPT !.ran = TRUE]]
            /\ UNCHANGED nodeCacheStatus
       ELSE LET out == PkgReconcilePlan(pkg, cachePlans[1], nodeCacheStatus, e)
            IN  /\ pkg' = [images |-> out.node.images, repos |-> out.node.repos,
                           last |-> [ran |-> TRUE, err |-> out.written.err,
                                     panicked |-> out.written.panicked,
                                     call |-> out.written.call,
                                     items |-> cachePlans[1].items,
                                     images |-> out.node.images,
                                     entries |-> out.node.imageStatus,
                                     pulls |-> out.node.pulls]]
                /\ nodeCacheStatus' = out.written.object
    /\ UNCHANGED <<ledger, agentVars, raceVars, ctlVars, beatVars, cachePlans,
                   nextRV, now, reconciler, cacheLast, runVars>>

\* Another client of the cluster creates the NodeCacheStatus of the node, as
\* the node agent's reconciler does: the object without status.
CreateStatusObject ==
    /\ ~nodeCacheStatus.exists
    /\ nodeCacheStatus' = [NoNodeCacheStatus EXCEPT !.exists = TRUE]
    /\ UNCHANGED <<ledger, agentVars, raceVars, ctlVars, beatVars, pkgVars,
                   cachePlans, nextRV, now, reconciler, cacheLast, runVars>>

\* The NodeCacheStatus of the node is deleted.
DeleteStatusObject ==
    /\ nodeCacheStatus.exists
    /\ nodeCacheStatus' = NoNodeCacheStatus
    /\ UNCHANGED <<ledger, agentVars, raceVars, ctlVars, beatVars, pkgVars,
                   cachePlans, nextRV, now, reconciler, cacheLast, runVars>>

\* The runtime of the host drops an image (the kubelet's image garbage
\* collection, or `crictl rmi`).
EvictImage(ref) ==
    /\ ref \in pkg.images
    /\ pkg' = [pkg EXCEPT !.images = @ \ {ref}]
    /\ UNCHANGED <<ledger, agentVars, raceVars, ctlVars, cacheVars, beatVars,
                   runVars>>

PkgNext ==
    \/ \E items \in ItemLists : SetPlanItems(items)
    \/ DeletePlan
    \/ \E e \in PkgEnvs : PkgReconcile(e)
    \/ \E ref \in {ImageItem.ref} : EvictImage(ref)
    \/ CreateStatusObject
    \/ DeleteStatusObject

\* The Reconciler of pkg/cache on one node, the plan it follows and the
\* NodeCacheStatus it writes.
SpecPkg == Init /\ [][PkgNext]_vars

(***************************************************************************)
(* The pass of the node agent's reconciler as the goroutine that calls     *)
(* Reconcile runs it: the call starts, and it returns when every tool it   *)
(* invokes has returned. pullImage and cloneGitRepo run their tools with   *)
(* exec.Command and CombinedOutput, without context or timeout, so a tool  *)
(* that never returns keeps the goroutine in that call.                    *)
(***************************************************************************)
\* Reconcile is called.
StartPass ==
    /\ run = "idle"
    /\ run' = "running"
    /\ UNCHANGED <<ledger, agentVars, raceVars, ctlVars, cacheVars, beatVars,
                   pkgVars>>

\* Every tool of the pass returns, with the exit status e gives it, and
\* Reconcile writes the status and returns.
FinishPass(e, order) ==
    /\ run = "running"
    /\ run' = "idle"
    /\ PublishCachePass(e, processCachePlans(reconciler, cachePlans, now, e, order))
    /\ UNCHANGED <<ledger, agentVars, raceVars, ctlVars, beatVars, pkgVars,
                   cachePlans, nextRV, now>>

\* A tool the pass invokes never returns: CombinedOutput blocks, nothing
\* ends the subprocess, and the goroutine stays in the call. What the pass
\* did before that tool is seen by nobody: the status is not written, and
\* the reconciler's fields are read by this goroutine only.
ToolHangs(e, order) ==
    /\ run = "running"
    /\ processCachePlans(reconciler, cachePlans, now, e, order).acc.tools # <<>>
    /\ run' = "hung"
    /\ UNCHANGED <<ledger, agentVars, raceVars, ctlVars, cacheVars, beatVars,
                   pkgVars>>

HangNext ==
    \/ \E items \in ItemLists : SetPlanItems(items)
    \/ Tick
    \/ StartPass
    \/ \E e \in CacheEnvs, order \in KeyOrders : FinishPass(e, order)
    \/ \E e \in CacheEnvs, order \in KeyOrders : ToolHangs(e, order)

\* The goroutine runs: a pass whose tools return is finished. A tool that
\* hangs is the environment's doing, and nothing makes it return.
SpecHang ==
    /\ Init /\ [][HangNext]_vars
    /\ WF_vars(\E e \in CacheEnvs, order \in KeyOrders : FinishPass(e, order))

(***************************************************************************)
(* What the claims speak of, stated apart from the code's operators        *)
(***************************************************************************)
\* The ledger of the node the serialized specification follows.
Here == ledger[ThisNode]

\* The ids of the pool with no owner in the cluster-managed record and none
\* in the host-managed record.
FreeIDs(L) ==
    {i \in 0..(L.gpuCount - 1) :
        L.gpu[Itoa(i)].user = "" /\ L.host[Itoa(i)].user = ""}

\* The named id s is not in the available set.
NotFree(L, s) == Atoi(s) = -1 \/ Atoi(s) \notin FreeIDs(L)

\* The step in which the handler of the pending request of kind op runs.
HandlerStep(op) ==
    phase = "pending" /\ req.op = op /\ phase' = "responded"

(***************************************************************************)
(* C1                                                                      *)
(***************************************************************************)
\* C1: with /allocate and /deallocate handled one at a time, no GPU id is a
\* member of the ownership sets of two different claims.
C1_NoDoubleBooking ==
    \A c \in Claims, d \in Claims :
        c # d => Here.claimGPUs[c] \cap Here.claimGPUs[d] = {}

\* Both claims hold GPUs, the second by a /allocate that just succeeded.
C1_Witness ==
    /\ phase = "responded" /\ req.op = "allocate" /\ resp.success
    /\ \A c \in Claims : Here.claimGPUs[c] # {}

(***************************************************************************)
(* C2                                                                      *)
(***************************************************************************)
\* The handler p has answered its request with success.
RaceSucceeded(p) == procs[p].pc = "done" /\ procs[p].resp.success

\* C2: nothing between the read of the available set and the writes of the
\* ownership stops a handler: a /allocate that selected ids from its read of
\* the available set answers success with exactly those ids and leaves them
\* in its claim's ownership set, whatever the other handler wrote in between;
\* so when two handlers for different claims selected the same id, the id is
\* in both claims' sets (it is double-booked) and its slot names one of them.
C2_NoLockBetweenReadAndWrite ==
    /\ \A p \in Procs :
          (procs[p].pc = "done" /\ Len(procs[p].selected) > 0) =>
             /\ procs[p].resp.success
             /\ procs[p].resp.allocatedGPUs = procs[p].selected
             /\ \A j \in 1..Len(procs[p].selected) :
                   Itoa(procs[p].selected[j]) \in Here.claimGPUs[procs[p].req.claimUID]
    /\ \A p \in Procs, q \in Procs :
          (RaceSucceeded(p) /\ RaceSucceeded(q)
              /\ procs[p].req.claimUID # procs[q].req.claimUID) =>
             \A g \in Range(procs[p].selected) \cap Range(procs[q].selected) :
                /\ Itoa(g) \in Here.claimGPUs[procs[p].req.claimUID]
                                 \cap Here.claimGPUs[procs[q].req.claimUID]
                /\ Here.gpu[Itoa(g)].user \in {K8sUser(procs[p].req.claimUID),
                                               K8sUser(procs[q].req.claimUID)}

\* Two handlers for different claims both answered success for a common id,
\* and the id is in both claims' ownership sets.
C2_Witness ==
    \E p \in Procs, q \in Procs :
        /\ RaceSucceeded(p) /\ RaceSucceeded(q)
        /\ procs[p].req.claimUID # procs[q].req.claimUID
        /\ \E g \in Range(procs[p].selected) \cap Range(procs[q].selected) :
              Itoa(g) \in Here.claimGPUs[procs[p].req.claimUID]
                            \cap Here.claimGPUs[procs[q].req.claimUID]

(***************************************************************************)
(* C3                                                                      *)
(***************************************************************************)
\* C3: when the /deallocate of a claim directly follows a successful
\* /allocate of that claim, every id that /allocate reserved has an empty
\* owner, is in the result of GetAvailableGPUs again, and the claim's
\* ownership set is gone.
C3_RoundTrip ==
    (phase = "responded" /\ req.op = "deallocate"
        /\ lastReserved.claimUID = req.claimUID)
    => /\ \A g \in lastReserved.gpus :
            /\ Here.gpu[Itoa(g)].user = ""
            /\ g \in Range(GetAvailableGPUs(Here))
       /\ Here.claimGPUs[req.claimUID] = {}

\* A /deallocate answered right after a /allocate that reserved two GPUs.
C3_Witness ==
    /\ phase = "responded" /\ req.op = "deallocate" /\ resp.success
    /\ lastReserved.claimUID = req.claimUID
    /\ Cardinality(lastReserved.gpus) = 2
    /\ freed = {Itoa(g) : g \in lastReserved.gpus}

(***************************************************************************)
(* C4                                                                      *)
(***************************************************************************)
C4_Step ==
    (/\ HandlerStep("allocate")
     /\ Len(req.gpuIDs) > 0
     /\ \E j \in 1..Len(req.gpuIDs) : NotFree(Here, req.gpuIDs[j]))
    => /\ ~resp'.success
       /\ resp'.allocatedGPUs = <<>>
       /\ ledger' = ledger
       /\ (\A j \in 1..Len(req.gpuIDs) : Atoi(req.gpuIDs[j]) # -1)
            => LET first == Min({j \in 1..Len(req.gpuIDs) :
                                    NotFree(Here, req.gpuIDs[j])})
               IN resp'.error =
                    "GPU " \o req.gpuIDs[first] \o " is not available"

\* C4: a /allocate that names ids of which at least one is not available
\* fails and writes nothing (no slot owner, no reservation info, no set
\* member), also for the named ids that were available; when every named id
\* is an integer the error is "GPU <id> is not available" for the first
\* named id that is not available.
C4_AllOrNothing == [][C4_Step]_vars

\* Answered: two ids were named, the first free, the second owned in the
\* host-managed domain.
C4_Witness ==
    /\ phase = "responded" /\ req.op = "allocate" /\ Len(req.gpuIDs) = 2
    /\ Atoi(req.gpuIDs[1]) \in FreeIDs(Here)
    /\ Atoi(req.gpuIDs[2]) # -1
    /\ Here.host[req.gpuIDs[2]].user # ""
    /\ ~resp.success
    /\ resp.error = "GPU 1 is not available"

(***************************************************************************)
(* C5                                                                      *)
(***************************************************************************)
C5_Step ==
    (/\ HandlerStep("allocate")
     /\ req.gpuIDs = <<>>
     /\ Cardinality(FreeIDs(Here)) < req.gpuCount)
    => /\ ~resp'.success
       /\ resp'.allocatedGPUs = <<>>
       /\ resp'.error = "Not enough available GPUs: requested "
                            \o ToString(req.gpuCount) \o ", available "
                            \o ToString(Cardinality(FreeIDs(Here)))
       /\ ledger' = ledger

\* C5: a /allocate without ids that asks for more GPUs than are available
\* answers success=false with "Not enough available GPUs: requested <n>,
\* available <m>" and leaves the ledger as it was.
C5_NotEnough == [][C5_Step]_vars

\* Answered: two were asked for and one was available.
C5_Witness ==
    /\ phase = "responded" /\ req.op = "allocate" /\ req.gpuIDs = <<>>
    /\ req.gpuCount = 2
    /\ Cardinality(FreeIDs(Here)) = 1
    /\ ~resp.success
    /\ resp.error = "Not enough available GPUs: requested 2, available 1"

(***************************************************************************)
(* C6                                                                      *)
(***************************************************************************)
C6_Exact == GetAvailableGPUs(Here) = Ascending(FreeIDs(Here))

C6_Step ==
    /\ HandlerStep("status")
        => /\ ledger' = ledger
           /\ resp'.availableGPUs = Ascending(FreeIDs(Here))
    /\ (HandlerStep("allocate") /\ resp'.success)
        => \A j \in 1..Len(resp'.allocatedGPUs) :
              /\ Here.host[Itoa(resp'.allocatedGPUs[j])].user = ""
              /\ Here.gpu[Itoa(resp'.allocatedGPUs[j])].user = ""

\* C6: GetAvailableGPUs returns, ascending, exactly the ids of the pool that
\* have no owner in the cluster-managed record and none in the host-managed
\* record; reading it (/status) changes nothing in the ledger; and a
\* successful /allocate reserves only ids that had no owner in either domain.
C6_BothDomains == []C6_Exact /\ [][C6_Step]_vars

\* A /allocate succeeded while the host-managed domain owned a GPU that the
\* cluster-managed domain shows as released.
C6_Witness ==
    /\ phase = "responded" /\ req.op = "allocate" /\ resp.success
    /\ \E k \in GPUKeys :
          /\ Here.host[k].user # ""
          /\ Here.gpu[k].present /\ Here.gpu[k].user = ""
          /\ Atoi(k) \notin Range(resp.allocatedGPUs)

(***************************************************************************)
(* C7                                                                      *)
(***************************************************************************)
C7_Step ==
    HandlerStep("deallocate")
    => /\ resp'.success
       /\ Here'.claimGPUs[req.claimUID] = {}
       /\ Here.claimGPUs[req.claimUID] = {} => ledger' = ledger

\* C7: /deallocate of a claim that has no ownership set succeeds and changes
\* nothing in the ledger; every /deallocate succeeds and leaves the claim
\* without an ownership set, so a second release of the same claim changes
\* nothing.
C7_ReleaseIdempotent == [][C7_Step]_vars

\* Answered: the claim had no set, while the other claim holds a GPU.
C7_Witness ==
    /\ phase = "responded" /\ req.op = "deallocate" /\ resp.success
    /\ freed = {}
    /\ \E c \in Claims : c # req.claimUID /\ Here.claimGPUs[c] # {}

(***************************************************************************)
(* C8                                                                      *)
(***************************************************************************)
\* C8: with requests handled one at a time, an id is in a claim's ownership
\* set exactly when the slot's owner is that claim.
C8_Bidirectional ==
    \A c \in Claims, k \in GPUKeys :
        k \in Here.claimGPUs[c] <=> Here.gpu[k].user = K8sUser(c)

\* One claim was just released and the other claim holds a GPU.
C8_Witness ==
    /\ phase = "responded" /\ req.op = "deallocate" /\ freed # {}
    /\ \E c \in Claims : Here.claimGPUs[c] # {}

(***************************************************************************)
(* C9                                                                      *)
(***************************************************************************)
\* The last Reconcile got a successful answer to /allocate and then failed
\* to update the claim's status.
StatusUpdateFailedAfterAllocate ==
    /\ Len(ctlLast.calls) >= 2
    /\ ctlLast.calls[1].op = "allocate" /\ ctlLast.calls[1].ok
    /\ ctlLast.calls[2].op = "statusUpdate" /\ ~ctlLast.calls[2].ok

\* No slot of the ledger of node n names claim c, and c has no ownership set
\* there.
OwnsNothingOn(n, c) ==
    /\ \A k \in GPUKeys : ledger[n].gpu[k].user # K8sUser(c)
    /\ ledger[n].claimGPUs[c] = {}

\* C9: when r.Status().Update fails after a successful /allocate, the next
\* and last call of the pass is a /deallocate for the same claim to the same
\* node, the pass returns an error and leaves the claim without a recorded
\* allocation, and when the agent has processed that /deallocate the claim
\* owns no GPU in that node's ledger.
C9_CompensatingRelease ==
    StatusUpdateFailedAfterAllocate =>
        /\ Len(ctlLast.calls) = 3
        /\ ctlLast.calls[3].op = "deallocate"
        /\ ctlLast.calls[3].node = ctlLast.calls[1].node
        /\ ctlLast.calls[3].claimUID = ctlLast.claimUID
        /\ ctlLast.calls[1].claimUID = ctlLast.claimUID
        /\ ctlLast.err # ""
        /\ claimObj[ctlLast.claimUID].allocation = NoAllocation
        /\ ctlLast.calls[3].processed =>
              OwnsNothingOn(ctlLast.calls[1].node, ctlLast.claimUID)

\* The status update failed after a successful /allocate on the second node
\* of the list, and the compensating /deallocate was processed there.
C9_Witness ==
    /\ StatusUpdateFailedAfterAllocate
    /\ ctlLast.calls[1].node = NodeOrder[2]
    /\ Len(ctlLast.calls) = 3 /\ ctlLast.calls[3].processed
    /\ OwnsNothingOn(NodeOrder[2], ctlLast.claimUID)
    /\ \E k \in GPUKeys : ledger[NodeOrder[2]].gpu[k] = ReleasedState

(***************************************************************************)
(* C10                                                                     *)
(***************************************************************************)
\* The last Reconcile got the same plans as the Reconcile before it, and
\* started less than an hour after the last full reconcile.
SecondCallInWindow ==
    /\ cacheLast.fetched /\ cacheLast.samePlans
    /\ ~cacheLast.hourPassed

\* C10: a Reconcile that gets the plans the Reconcile before it got, and
\* starts less than an hour after the last full reconcile, is not a full
\* reconcile and invokes no tool: no crictl pull and no git clone, pull,
\* fetch or reset.
C10_NoToolOnSecondCall ==
    SecondCallInWindow => (~cacheLast.full /\ cacheLast.tools = <<>>)

\* Such a second Reconcile ran for a plan with an image and a repository,
\* both of which the reconciler has a status for.
C10_Witness ==
    /\ SecondCallInWindow
    /\ cacheLast.tools = <<>>
    /\ Len(cacheLast.plans) = 1
    /\ cacheLast.plans[1].items = <<ImageItem, GitRepoItem>>
    /\ \A k \in StatusKeys : reconciler.currentImageStatus[k] # NoStatus

(***************************************************************************)
(* C11                                                                     *)
(***************************************************************************)
\* The step is a Reconcile that got the plans the Reconcile before it got,
\* started less than an hour after the last full reconcile, and both wrote
\* their status.
SecondCallStep ==
    /\ cacheLast.fetched /\ cacheLast.err = ""
    /\ cacheLast'.fetched /\ cacheLast'.samePlans /\ cacheLast'.err = ""
    /\ ~cacheLast'.hourPassed
    /\ cacheLast'.plans = cachePlans /\ cacheLast.plans = cachePlans

\* C11: the status the second of two Reconciles with the same plans inside
\* the hour publishes (images, gitRepos and errors) is the status the first
\* one published.
C11_SecondStatusIdentical ==
    [][SecondCallStep =>
          /\ nodeCacheStatus'.images = nodeCacheStatus.images
          /\ nodeCacheStatus'.gitRepos = nodeCacheStatus.gitRepos
          /\ nodeCacheStatus'.errors = nodeCacheStatus.errors]_vars

(***************************************************************************)
(* C12                                                                     *)
(***************************************************************************)
\* Items as an edit of one field of an item of the plan leaves them.
ItemVariants ==
    {ImageItem, [ImageItem EXCEPT !.ref = "registry.io/app:2"],
     [ImageItem EXCEPT !.name = "app2"],
     GitRepoItem, [GitRepoItem EXCEPT !.branch = "dev"],
     [GitRepoItem EXCEPT !.ref = "https://git.example/tools2"],
     [GitRepoItem EXCEPT !.name = "tools2"]}

\* Replacing any one item of the listed plan by a different item changes the
\* plan hash, even at the same resourceVersion.
HashSensitive ==
    \A j \in 1..Len(cachePlans) : \A i \in 1..Len(cachePlans[j].items) :
      \A v \in ItemVariants :
        v # cachePlans[j].items[i] =>
            calculatePlanHash([cachePlans EXCEPT ![j].items[i] = v])
                # calculatePlanHash(cachePlans)

\* The step is a Reconcile that got a plan whose items differ from those of
\* the plan the Reconcile before it got.
ItemsChangedStep ==
    /\ cacheLast.fetched /\ cacheLast'.fetched
    /\ cacheLast' # cacheLast
    /\ cacheLast'.plans = cachePlans
    /\ Len(cacheLast.plans) = 1 /\ Len(cachePlans) = 1
    /\ cacheLast.plans[1].items # cachePlans[1].items

\* The pass of the step ran the handler of every item of the plan: a pull
\* for an image, and for a repository git commands or, git missing, a
\* failed status.
HandlersInvoked ==
    \A i \in 1..Len(cachePlans[1].items) :
        LET item == cachePlans[1].items[i]
        IN IF item.type = "image"
           THEN \E t \in 1..Len(cacheLast'.tools) :
                   cacheLast'.tools[t] = "crictl pull " \o item.ref
           ELSE \/ \E t \in 1..Len(cacheLast'.tools) :
                      cacheLast'.tools[t] \in {"git clone " \o item.ref,
                                               "git pull " \o item.ref,
                                               "git fetch " \o item.ref}
                \/ reconciler'.currentImageStatus[RepoKey(item)].status = "failed"

C12_Step ==
    ItemsChangedStep =>
        /\ calculatePlanHash(cachePlans) # calculatePlanHash(cacheLast.plans)
        /\ calculatePlanHash(cachePlans) # reconciler.lastCachePlanHash
        /\ cacheLast'.full
        /\ reconciler'.lastCachePlanHash = calculatePlanHash(cachePlans)
        /\ reconciler'.lastFullReconcile = now
        /\ HandlersInvoked

\* C12: a change of an item of the plan changes the plan hash, and the
\* Reconcile that gets a plan whose items differ from those the Reconcile
\* before it got does a full reconcile and runs the handler of every item,
\* whatever the time since the last full reconcile.
C12_HashSensitivity == []HashSensitive /\ [][C12_Step]_vars

\* A full reconcile less than an hour after the one before it, for a plan
\* whose items were changed in between.
C12_Witness ==
    /\ cacheLast.full /\ cacheLast.fetched /\ ~cacheLast.samePlans
    /\ ~cacheLast.hourPassed
    /\ Len(cacheLast.plans) = 1
    /\ cacheLast.plans[1].items = <<ImageItem, GitRepoItem>>
    /\ cacheLast.plans[1].resourceVersion > 1
    /\ Len(cacheLast.tools) >= 2

(***************************************************************************)
(* C13                                                                     *)
(***************************************************************************)
\* The step is one Reconcile.
ReconcileStep == \E e \in CacheEnvs, order \in KeyOrders : CacheReconcile(e, order)

\* The step is a Reconcile that could not list the plans and wrote its status
\* over a status published before.
FetchFailedStep ==
    /\ ReconcileStep
    /\ ~cacheLast'.fetched /\ cacheLast'.err = ""
    /\ nodeCacheStatus.exists

\* C13: a Reconcile that cannot fetch the plans publishes the error, runs no
\* item handler, and publishes the images and gitRepos of the status
\* published before it.
C13_FetchFailureRetainsStatus ==
    [][FetchFailedStep =>
          /\ nodeCacheStatus'.errors # <<>>
          /\ cacheLast'.tools = <<>>
          /\ nodeCacheStatus'.images = nodeCacheStatus.images
          /\ nodeCacheStatus'.gitRepos = nodeCacheStatus.gitRepos]_vars

(***************************************************************************)
(* C14                                                                     *)
(***************************************************************************)
\* Whether the handler of item pulls or clones in the pass of the step: the
\* plan changed, the item has no status yet, or a marker names the
\* repository.
Attempted(item) ==
    \/ PlanChanged(calculatePlanHash(cachePlans), reconciler.lastCachePlanHash)
    \/ /\ item.type = "image"
       /\ reconciler.currentImageStatus[ImageKey(item)] = NoStatus
    \/ /\ item.type = "gitRepo"
       /\ \/ reconciler.currentImageStatus[RepoKey(item)] = NoStatus
          \/ item.name \in cachePlans[1].annotations.update

\* Whether the pull or clone of item succeeds under the faults e.
HandlerSucceeds(item, e) ==
    IF item.type = "image" THEN e.pull
    ELSE cloneGitRepo(reconciler.dirs, item,
                      IF item.name = "" THEN item.ref ELSE item.name,
                      item.name \in cachePlans[1].annotations.force
                          /\ item.name \in cachePlans[1].annotations.update,
                      e).err = ""

\* The entries a status list has for item.
EntriesOf(list, item) ==
    {k \in 1..Len(list) : list[k].ref = item.ref /\ list[k].name = item.name}

\* The list of the status pub that item belongs to.
ListOf(pub, item) ==
    IF item.type = "image" THEN pub.images ELSE pub.gitRepos

\* The errors of the status pub have a message with the ref of item.
ErrorNames(pub, item) ==
    \E k \in 1..Len(pub.errors) :
        pub.errors[k] \in {"Failed to pull image " \o item.ref,
                           "Failed to clone git repo " \o item.ref}

C14_ItemOK(item, e, pub) ==
    /\ EntriesOf(ListOf(pub, item), item) # {}
    /\ Attempted(item) =>
          \A k \in EntriesOf(ListOf(pub, item), item) :
              IF HandlerSucceeds(item, e)
              THEN /\ ListOf(pub, item)[k].status = "ready"
                   /\ ListOf(pub, item)[k].present
              ELSE /\ ListOf(pub, item)[k].status = "failed"
                   /\ ~ListOf(pub, item)[k].present
                   /\ ErrorNames(pub, item)

\* What a Reconcile with the pass results out publishes under the faults e.
PublishedBy(e, out) ==
    updateNodeCacheStatus(nodeCacheStatus, out.acc.images, out.acc.gitRepos,
                          out.acc.errors, e)

C14_PassOK(e, out, written) ==
    (e.list /\ out.full /\ written.err = "" /\ Len(cachePlans) = 1)
    => \A i \in 1..Len(cachePlans[1].items) :
           C14_ItemOK(cachePlans[1].items[i], e, written.object)

C14_ReconcileOK(e, out) == C14_PassOK(e, out, PublishedBy(e, out))

\* C14: in a full pass every item of the plan gets a published entry; the
\* entry of an item whose pull or clone fails is failed and not present and
\* the errors name the item, and the entry of an item whose pull or clone
\* succeeds is ready and present, whatever happened to the other items.
\* Stated of the Reconcile that runs from each reachable state, under each
\* fault.
C14_ContinueOnError ==
    \A e \in CacheEnvs, order \in KeyOrders :
        C14_ReconcileOK(e, processCachePlans(reconciler, cachePlans, now, e, order))

\* A full pass that published a failed image, its error, and a ready
\* repository after it.
C14_Witness ==
    /\ cacheLast.fetched /\ cacheLast.full /\ cacheLast.err = ""
    /\ Len(cacheLast.plans) = 1
    /\ cacheLast.plans[1].items = <<ImageItem, GitRepoItem>>
    /\ Len(nodeCacheStatus.images) = 1 /\ Len(nodeCacheStatus.gitRepos) = 1
    /\ nodeCacheStatus.images[1].status = "failed"
    /\ ~nodeCacheStatus.images[1].present
    /\ nodeCacheStatus.gitRepos[1].status = "ready"
    /\ nodeCacheStatus.errors = <<"Failed to pull image " \o ImageItem.ref>>

(***************************************************************************)
(* C15                                                                     *)
(***************************************************************************)
\* The pass with the results out ran the git command cmd on item.
RanGit(out, cmd, item) ==
    \E t \in 1..Len(out.acc.tools) : out.acc.tools[t] = cmd \o " " \o item.ref

\* The plan lists the repository and carries an update marker for it; git is
\* installed and the plans can be listed.
MarkedPass(e) ==
    /\ e.list /\ e.gitAvailable
    /\ Len(cachePlans) = 1
    /\ \E i \in 1..Len(cachePlans[1].items) : cachePlans[1].items[i] = GitRepoItem
    /\ GitRepoItem.name \in cachePlans[1].annotations.update

C15_ReconcileOK(e, out) ==
    MarkedPass(e) =>
        /\ \/ RanGit(out, "git clone", GitRepoItem)
           \/ RanGit(out, "git pull", GitRepoItem)
           \/ RanGit(out, "git fetch", GitRepoItem)
        /\ (/\ GitRepoItem.name \in cachePlans[1].annotations.force
            /\ reconciler.dirs[GitRepoItem.name]
            /\ e.update = "ok")
           => /\ RanGit(out, "git fetch", GitRepoItem)
              /\ RanGit(out, "git reset", GitRepoItem)

\* C15: every Reconcile that gets a plan with an update marker for a
\* repository of the plan re-syncs that repository, whatever the plan hash and
\* the time since the last full reconcile; with the force marker and the
\* repository on disk it fetches and resets.
C15_MarkerAlwaysResyncs ==
    \A e \in CacheEnvs, order \in KeyOrders :
        C15_ReconcileOK(e, processCachePlans(reconciler, cachePlans, now, e, order))

(***************************************************************************)
(* C17                                                                     *)
(***************************************************************************)
\* The gpuCount lowest ids of the available set of L, ascending.
LowestFree(L, gpuCount) == SubSeq(Ascending(FreeIDs(L)), 1, gpuCount)

C17_Step ==
    (/\ HandlerStep("allocate")
     /\ req.gpuIDs = <<>>
     /\ resp'.success)
    => /\ req.gpuCount <= Cardinality(FreeIDs(Here))
       /\ resp'.allocatedGPUs = LowestFree(Here, req.gpuCount)
       /\ \A i \in 0..(NumGPUs - 1) :
             IF i \in Range(LowestFree(Here, req.gpuCount))
             THEN /\ ledger'[ThisNode].gpu[Itoa(i)].user = K8sUser(req.claimUID)
                  /\ Itoa(i) \in ledger'[ThisNode].claimGPUs[req.claimUID]
             ELSE ledger'[ThisNode].gpu[Itoa(i)] = Here.gpu[Itoa(i)]
       /\ ledger'[ThisNode].claimGPUs[req.claimUID] =
             Here.claimGPUs[req.claimUID]
                 \cup {Itoa(i) : i \in Range(LowestFree(Here, req.gpuCount))}

\* C17: a /allocate without ids that succeeds makes the claim the owner of
\* exactly the gpuCount lowest ids that were available when it ran, answers
\* with those ids in ascending order, and adds them to the claim's set.
C17_LowestIDs == [][C17_Step]_vars

\* Answered with GPU 1 alone: GPU 0 was not available.
C17_Witness ==
    /\ phase = "responded" /\ req.op = "allocate" /\ req.gpuIDs = <<>>
    /\ req.gpuCount = 1 /\ resp.success
    /\ resp.allocatedGPUs = <<1>>
    /\ Here.claimGPUs[req.claimUID] = {Itoa(1)}
    /\ Here.host[Itoa(0)].user # ""

(***************************************************************************)
(* C16                                                                     *)
(***************************************************************************)
\* With the reads f failing, GetAvailableGPUs performs a read that fails.
PerformsFailedRead(L, f) ==
    \/ f.count
    \/ \E i \in 0..(L.gpuCount - 1) : Itoa(i) \in f.k8s \cup f.host

\* C16: whenever a read fails that the GetAvailableGPUs call of a /allocate
\* performs (the read of gpu_count, or the read of a slot's cluster-managed or
\* host-managed key), GetAvailableGPUs returns an error and the /allocate
\* answers success=false.
C16_ReadFailureIsError ==
    (phase = "pending" /\ req.op = "allocate") =>
        \A f \in ReadFaults :
            PerformsFailedRead(Here, f) =>
                /\ GetAvailableGPUsWith(Here, f).err # ""
                /\ ~handleAllocateWith(NodeAgent(ThisNode), Here, req, f, 0)
                        .resp.success

(***************************************************************************)
(* C18                                                                     *)
(***************************************************************************)
\* The claim that owns the slot with the cluster-managed blob d, "" for none.
OwnerOf(d) == ClaimOfUser(d.user)

C18_SlotStep(k) ==
    OwnerOf(ledger'[ThisNode].gpu[k]) # OwnerOf(Here.gpu[k]) =>
        \/ /\ OwnerOf(Here.gpu[k]) = ""
           /\ HandlerStep("allocate")
           /\ OwnerOf(ledger'[ThisNode].gpu[k]) = req.claimUID
        \/ /\ OwnerOf(ledger'[ThisNode].gpu[k]) = ""
           /\ HandlerStep("deallocate")
           /\ OwnerOf(Here.gpu[k]) = req.claimUID

C18_Step ==
    /\ \A k \in GPUKeys : C18_SlotStep(k)
    /\ HandlerStep("heartbeat") =>
          \A k \in GPUKeys : OwnerOf(ledger'[ThisNode].gpu[k]) = OwnerOf(Here.gpu[k])

\* C18: with the calls run one at a time, the owner of a slot changes only
\* from none to a claim, in a /allocate of that claim, and from a claim to
\* none, in a /deallocate of that claim; never from one claim to another, and
\* never in an UpdateHeartbeat.
C18_OwnerTransitions == [][C18_Step]_vars

\* A heartbeat of a claim that owns a slot has run, next to a slot that was
\* reserved and released before.
C18_Witness ==
    /\ phase = "responded" /\ req.op = "heartbeat"
    /\ \E k \in GPUKeys : OwnerOf(Here.gpu[k]) = req.claimUID
    /\ \E k \in GPUKeys : Here.gpu[k] = ReleasedState

(***************************************************************************)
(* C19                                                                     *)
(***************************************************************************)
\* The step is the SET of a running UpdateHeartbeat.
HeartbeatWrite == beat.pc = "got" /\ beat'.pc = "loop"

\* C19: whatever /allocate and /deallocate ran since UpdateHeartbeat read a
\* slot, its write leaves every slot with the owner the slot had just before
\* the write; a slot released in between stays without owner.
C19_HeartbeatKeepsOwner ==
    [][HeartbeatWrite =>
          \A k \in GPUKeys :
              OwnerOf(ledger'[ThisNode].gpu[k]) = OwnerOf(Here.gpu[k])]_vars

(***************************************************************************)
(* C20                                                                     *)
(***************************************************************************)
\* C20: also after a /allocate whose ReserveGPUsForClaim failed at one of its
\* writes, every slot whose owner is a claim is a member of that claim's set,
\* so that the /deallocate of the claim frees it.
C20_NoStrandedSlot ==
    \A c \in Claims, k \in GPUKeys :
        Here.gpu[k].user = K8sUser(c) => k \in Here.claimGPUs[c]

(***************************************************************************)
(* C21                                                                     *)
(***************************************************************************)
\* C21: with /allocate and /deallocate handled one at a time, the
\* reservation info records of the ledger are those of the pairs (c, g) with
\* g in the ownership set of c: a reservation writes the record of every id
\* it reserves and a release deletes the records of the claim with its set.
C21_InfoMatchesSet ==
    Here.claimInfo =
        {p \in Claims \X GPUKeys : p[2] \in Here.claimGPUs[p[1]]}

\* A /deallocate has just freed the GPUs of one claim while the other claim
\* keeps a reservation and its record.
C21_Witness ==
    /\ phase = "responded" /\ req.op = "deallocate" /\ freed # {}
    /\ \E c \in Claims : c # req.claimUID /\ Here.claimGPUs[c] # {}
    /\ \A k \in GPUKeys : <<req.claimUID, k>> \notin Here.claimInfo
    /\ Here.claimInfo # {}

(***************************************************************************)
(* C22                                                                     *)
(***************************************************************************)
C22_PassOK(e, out) ==
    e.list =>
        /\ out.full <=>
              \/ calculatePlanHash(cachePlans) # reconciler.lastCachePlanHash
              \/ now - reconciler.lastFullReconcile >= Hour
        /\ out.full =>
              /\ out.lastFullReconcile = now
              /\ out.lastCachePlanHash = calculatePlanHash(cachePlans)
        /\ ~out.full =>
              /\ out.lastFullReconcile = reconciler.lastFullReconcile
              /\ out.lastCachePlanHash = reconciler.lastCachePlanHash
              /\ out.acc.status = reconciler.currentImageStatus
              /\ out.acc.dirs = reconciler.dirs
              /\ out.acc.tools = <<>>

\* The Reconcile that runs from the current state decides as C22_PassOK says,
\* under every fault.
C22_NextPassOK ==
    \A e \in CacheEnvs, order \in KeyOrders :
        C22_PassOK(e, processCachePlans(reconciler, cachePlans, now, e, order))

\* C22: a Reconcile that gets the plans is a full reconcile exactly when the
\* plan hash differs from the stored hash or an hour has passed since
\* lastFullReconcile; a full one stores now and the new hash, and one that is
\* not full leaves the stored hash, lastFullReconcile and the status of every
\* item as they were. Stated of the Reconcile that runs from each reachable
\* state.
C22_FullExactlyWhen == []C22_NextPassOK

\* A full reconcile of an unchanged plan, an hour after the one before it.
C22_Witness ==
    /\ cacheLast.fetched /\ cacheLast.full /\ cacheLast.samePlans
    /\ cacheLast.hourPassed
    /\ cachePlans # <<>> /\ cacheLast.plans = cachePlans
    /\ reconciler.lastFullReconcile = now
    /\ reconciler.lastCachePlanHash = calculatePlanHash(cachePlans)

(***************************************************************************)
(* C23                                                                     *)
(***************************************************************************)
\* The pass with the results out invoked crictl pull on the image item.
Pulled(out, item) ==
    \E t \in 1..Len(out.acc.tools) : out.acc.tools[t] = "crictl pull " \o item.ref

\* The Reconcile gets the plans, is a full one, and the plan hash is the
\* stored one.
FullUnchangedPass(e, out) ==
    /\ e.list /\ out.full
    /\ Len(cachePlans) = 1
    /\ calculatePlanHash(cachePlans) = reconciler.lastCachePlanHash

C23_PassOK(e, out) ==
    FullUnchangedPass(e, out) =>
        \A i \in 1..Len(cachePlans[1].items) :
            cachePlans[1].items[i].type = "image" =>
                (Pulled(out, cachePlans[1].items[i]) <=>
                    reconciler.currentImageStatus[ImageKey(cachePlans[1].items[i])]
                        .status # "ready")

\* C23: in a full reconcile of an unchanged plan an image is pulled exactly
\* when its stored status is missing or is not ready; an image whose stored
\* status is failed is pulled again.
C23_PullUnlessReady ==
    \A e \in CacheEnvs, order \in KeyOrders :
        C23_PassOK(e, processCachePlans(reconciler, cachePlans, now, e, order))

(***************************************************************************)
(* C24                                                                     *)
(***************************************************************************)
\* The plan lists the repository with an update marker, and its items are
\* those the Reconcile before got: nothing but annotations changed since.
MarkerOnlyChange(e) ==
    /\ MarkedPass(e)
    /\ cacheLast.fetched /\ Len(cacheLast.plans) = 1
    /\ cacheLast.plans[1].items = cachePlans[1].items

C24_PassOK(e, out) ==
    MarkerOnlyChange(e) =>
        \A i \in 1..Len(cachePlans[1].items) :
            (/\ cachePlans[1].items[i].type = "image"
             /\ reconciler.currentImageStatus[ImageKey(cachePlans[1].items[i])]
                    # NoStatus)
            => /\ ~Pulled(out, cachePlans[1].items[i])
               /\ out.acc.status[ImageKey(cachePlans[1].items[i])] =
                     reconciler.currentImageStatus[ImageKey(cachePlans[1].items[i])]

\* C24: in a Reconcile of a plan that carries an update marker for a
\* repository and whose items are unchanged, no tool is invoked for the other
\* items that have a stored status, and their status is reused.
C24_OnlyMarkedResynced ==
    \A e \in CacheEnvs, order \in KeyOrders :
        C24_PassOK(e, processCachePlans(reconciler, cachePlans, now, e, order))

(***************************************************************************)
(* C25                                                                     *)
(***************************************************************************)
C25_PassOK(e, out) ==
    (MarkedPass(e) /\ out.full) =>
        \/ RanGit(out, "git clone", GitRepoItem)
        \/ RanGit(out, "git pull", GitRepoItem)
        \/ RanGit(out, "git fetch", GitRepoItem)

\* Every full reconcile of a plan with a marker for a repository of the plan
\* runs git on that repository (git being installed).
C25_MarkedIsResynced ==
    \A e \in CacheEnvs, order \in KeyOrders :
        C25_PassOK(e, processCachePlans(reconciler, cachePlans, now, e, order))

\* A step that changes what the reconciler keeps or publishes leaves the
\* plans, their markers included, as they are.
C25_Step ==
    (\/ reconciler' # reconciler
     \/ nodeCacheStatus' # nodeCacheStatus
     \/ cacheLast' # cacheLast)
    => cachePlans' = cachePlans

\* C25: the reconciler never removes an update marker, and as long as the
\* marker of a repository is on the plan every full reconcile re-syncs the
\* repository.
C25_MarkerNeverCleared == []C25_MarkedIsResynced /\ [][C25_Step]_vars

\* An hourly full reconcile of an unchanged plan has pulled the repository,
\* whose marker was there at the full reconcile before and is still there.
C25_Witness ==
    /\ cacheLast.fetched /\ cacheLast.full /\ cacheLast.samePlans
    /\ cacheLast.hourPassed
    /\ cacheLast.plans = cachePlans /\ Len(cachePlans) = 1
    /\ GitRepoItem.name \in cachePlans[1].annotations.update
    /\ \E t \in 1..Len(cacheLast.tools) :
          cacheLast.tools[t] = "git pull " \o GitRepoItem.ref

\* ---------------------------------------------------------------------
\* C26  The Git Syncer's decision procedure
\* ---------------------------------------------------------------------

\* Whether a command starting with verb is among the commands run.
RanVerb(tools, verb) ==
    \E i \in 1..Len(tools) :
        /\ Len(tools[i]) >= Len(verb)
        /\ SubSeq(tools[i], 1, Len(verb)) = verb

\* The decision procedure for one call of cloneGitRepo on the directories
\* dirs, with git the result of that call.
C26_CallOK(dirs, item, pathName, force, e, git) ==
    LET cloned  == RanVerb(git.tools, "git clone")
        updated == RanVerb(git.tools, "git pull") \/ RanVerb(git.tools, "git fetch")
    IN  /\ ~dirs[pathName] => cloned /\ ~updated
        /\ dirs[pathName] /\ force =>
              /\ RanVerb(git.tools, "git fetch") /\ ~RanVerb(git.tools, "git pull")
              /\ e.update = "ok" => RanVerb(git.tools, "git reset") /\ ~cloned
              /\ e.update # "ok" => cloned
        /\ dirs[pathName] /\ ~force =>
              /\ RanVerb(git.tools, "git pull") /\ ~RanVerb(git.tools, "git fetch")
              /\ e.update # "firstFails" => ~cloned
              /\ e.update = "firstFails" => cloned
        /\ git.err # "" <=> cloned /\ ~git.dirs[pathName]

\* C26: whatever the state of the cache directory, a call of the Git Syncer
\* for a repository of the plan clones at once when the target is missing,
\* fetches and resets with force and pulls without, falls back to a fresh
\* clone when those fail, and returns an error exactly when that final clone
\* was attempted and failed.
C26_GitSyncerProcedure ==
    (/\ Len(cachePlans) = 1
     /\ \E i \in 1..Len(cachePlans[1].items) : cachePlans[1].items[i] = GitRepoItem)
    => \A e \in CacheEnvs, force \in BOOLEAN :
        C26_CallOK(reconciler.dirs, GitRepoItem, GitRepoItem.name, force, e,
                   cloneGitRepo(reconciler.dirs, GitRepoItem, GitRepoItem.name,
                                force, e))

\* ---------------------------------------------------------------------
\* C27  Every pass ends with the write of the node's status
\* ---------------------------------------------------------------------

\* The status map entries of the items of one type, in the order of items.
StatusesOf(items, type) ==
    LET sel == SelectSeq(items, LAMBDA it : it.type = type)
    IN  [k \in 1..Len(sel) |->
            reconciler.currentImageStatus[
                IF type = "image" THEN ImageKey(sel[k]) ELSE RepoKey(sel[k])]]

\* The items of the plans the last pass got.
LastItems == IF cacheLast.plans = <<>> THEN <<>> ELSE cacheLast.plans[1].items

\* What the last pass collected is what the status object holds: the fetch
\* error alone after a pass without plans, the stored statuses after a
\* short-circuited pass, and after a full pass the entry of every item of the
\* plan and errors that each name an item whose entry is failed.
C27_Collected ==
    IF ~cacheLast.fetched
    THEN /\ nodeCacheStatus.images = <<>> /\ nodeCacheStatus.gitRepos = <<>>
         /\ nodeCacheStatus.errors = <<"Failed to get cache plans">>
    ELSE IF ~cacheLast.full
    THEN /\ \E order \in KeyOrders :
               /\ nodeCacheStatus.images =
                      getCurrentStatus(reconciler.currentImageStatus, order).images
               /\ nodeCacheStatus.gitRepos =
                      getCurrentStatus(reconciler.currentImageStatus, order).gitRepos
         /\ nodeCacheStatus.errors = <<>>
    ELSE /\ nodeCacheStatus.images = StatusesOf(LastItems, "image")
         /\ nodeCacheStatus.gitRepos = StatusesOf(LastItems, "gitRepo")
         /\ \A k \in 1..Len(nodeCacheStatus.errors) :
               \E i \in 1..Len(LastItems) :
                   /\ nodeCacheStatus.errors[k] \in
                          {"Failed to pull image " \o LastItems[i].ref,
                           "Failed to clone git repo " \o LastItems[i].ref}
                   /\ \A j \in EntriesOf(ListOf(nodeCacheStatus, LastItems[i]),
                                         LastItems[i]) :
                          ListOf(nodeCacheStatus, LastItems[i])[j].status = "failed"

\* C27: a Reconcile that returned no error, whether its pass was full,
\* short-circuited or without plans, left the status object in existence and
\* holding what the pass collected; and the Reconcile that runs from any state
\* returns an error exactly when the write of the status object fails.
C27_StatusAlwaysWritten ==
    /\ ((cacheLast # NoPass \/ nodeCacheStatus.exists) /\ cacheLast.err = "") =>
           nodeCacheStatus.exists /\ C27_Collected
    /\ \A e \in CacheEnvs, order \in KeyOrders :
           (PublishedBy(e, processCachePlans(reconciler, cachePlans, now, e,
                                             order)).err # "") <=> ~e.write

\* A pass that could not list the plans has run while no status object
\* existed before it, and the object now exists with the fetch error.
C27_Witness ==
    /\ cacheLast # NoPass /\ ~cacheLast.fetched /\ cacheLast.err = ""
    /\ nodeCacheStatus.exists
    /\ nodeCacheStatus.errors = <<"Failed to get cache plans">>
    /\ reconciler.lastCachePlanHash = ""

\* ---------------------------------------------------------------------
\* C28  Reconciler.updateNodeCacheStatus of pkg/cache
\* ---------------------------------------------------------------------

\* What the claim says of one call: existing is the object as the lookup
\* finds it, w what the call leaves.
C28_CallOK(existing, e, w) ==
    /\ (e.lookup /\ ~existing.exists /\ e.write) =>
           /\ ~w.panicked /\ w.err = ""
           /\ w.call = "create" /\ w.object.exists
    /\ (e.lookup /\ existing.exists /\ e.write) =>
           /\ ~w.panicked /\ w.err = ""
           /\ w.call = "update" /\ w.object.exists
    /\ ~e.lookup =>
           /\ w.err # "" /\ w.call = "none" /\ w.object = existing

\* C28: the Reconcile of the pkg/cache Reconciler that runs for the plan from
\* any reachable state creates the NodeCacheStatus when the lookup finds none,
\* updates the object when the lookup finds one, and returns a lookup error
\* other than not-found without writing.
C28_CreateOrUpdate ==
    cachePlans # <<>> =>
        \A e \in {f \in PkgEnvs : f.planGet} :
            C28_CallOK(nodeCacheStatus, e,
                PkgReconcilePlan(pkg, cachePlans[1], nodeCacheStatus, e).written)

\* ---------------------------------------------------------------------
\* C29  A failed item is named by the errors published with it
\* ---------------------------------------------------------------------

\* The errors of the status pub have a message that names the entry.
ErrorNamesEntry(pub, entry) ==
    \E k \in 1..Len(pub.errors) :
        pub.errors[k] \in {"Failed to pull image " \o entry.ref,
                           "Failed to clone git repo " \o entry.ref}

\* C29: in the status the node agent's reconciler has published, every entry
\* of images and of gitRepos whose status is failed is named by a message of
\* the errors of that same status.
C29_FailedIsInErrors ==
    /\ \A k \in 1..Len(nodeCacheStatus.images) :
           nodeCacheStatus.images[k].status = "failed" =>
               ErrorNamesEntry(nodeCacheStatus, nodeCacheStatus.images[k])
    /\ \A k \in 1..Len(nodeCacheStatus.gitRepos) :
           nodeCacheStatus.gitRepos[k].status = "failed" =>
               ErrorNamesEntry(nodeCacheStatus, nodeCacheStatus.gitRepos[k])

\* ---------------------------------------------------------------------
\* C30  Every pass completes, whatever the tools do
\* ---------------------------------------------------------------------

\* C30: every Reconcile that has started eventually returns, having written
\* its status, also when a tool it invokes hangs.
C30_PassCompletes == (run = "running") ~> (run = "idle")

\* ---------------------------------------------------------------------
\* C31  Reconciler.reconcileImage of pkg/cache is idempotent
\* ---------------------------------------------------------------------

\* The plan and the node are as the last Reconcile left them.
C31_SecondCall ==
    /\ pkg.last.ran
    /\ cachePlans # <<>>
    /\ pkg.last.items = cachePlans[1].items
    /\ pkg.last.images = pkg.images

\* The present flags of a list of image entries.
PresentFlags(entries) == [i \in DOMAIN entries |-> entries[i].present]

\* What the claim says of the pass next that runs from the current state
\* under e.
C31_PassOK(e, next) ==
    /\ next.pulls \cap pkg.images = {}
    /\ e.check =>
           \A i \in DOMAIN next.imageStatus :
               next.imageStatus[i].ref \in pkg.images =>
                   next.imageStatus[i].present
    /\ C31_SecondCall =>
           /\ \A i \in DOMAIN pkg.last.entries :
                  pkg.last.entries[i].present =>
                      /\ pkg.last.entries[i].ref \notin next.pulls
                      /\ e.check => next.imageStatus[i].present
           /\ (\A i \in DOMAIN pkg.last.entries : pkg.last.entries[i].present)
                  => /\ next.pulls = {}
                     /\ e.check => PresentFlags(next.imageStatus)
                                       = PresentFlags(pkg.last.entries)

\* C31: the Reconcile of the pkg/cache Reconciler never runs a pull for an
\* image the runtime lists; a Reconcile that follows one over the same plan
\* and the node as it left it pulls no image the first one reported present
\* and reports it present again, and after a Reconcile that reported every
\* image present it runs no pull and reports the same present flags.
C31_ImageIdempotent ==
    cachePlans # <<>> =>
        \A e \in {f \in PkgEnvs : f.planGet} :
            C31_PassOK(e, PkgReconcilePlan(pkg, cachePlans[1],
                                           nodeCacheStatus, e).node)

\* A second Reconcile ran over the plan and the node the first left: it found
\* the image the first had pulled and ran no pull.
C31_Witness ==
    /\ C31_SecondCall
    /\ Len(pkg.last.entries) = 1
    /\ pkg.last.entries[1].present
    /\ pkg.last.entries[1].message = "Present via " \o CRIType
    /\ pkg.last.pulls = {}

\* ---------------------------------------------------------------------
\* C32  ReleaseGPUsForClaim clears only the slots its claim owns
\* ---------------------------------------------------------------------

\* ReleaseGPUsForClaim(claimUID) run on L leaves every slot that another
\* claim owns as it is.
C32_ReleaseOK(L, claimUID, after) ==
    \A k \in GPUKeys :
        (OwnerOf(L.gpu[k]) # "" /\ OwnerOf(L.gpu[k]) # claimUID) =>
            after.gpu[k] = L.gpu[k]

\* C32: in every reachable state of the agent with interleaved /allocate
\* handlers, releasing a claim clears the owner of no slot that another
\* claim owns.
C32_ReleaseOnlyOwn ==
    \A c \in Claims :
        C32_ReleaseOK(Here, c, ReleaseGPUsForClaim(Here, c).ledger)

\* ---------------------------------------------------------------------
\* C33  A claim owns no more GPUs than it requested
\* ---------------------------------------------------------------------

\* The slots of the cluster whose owner is the claim c.
OwnedSlots(Lg, c) ==
    {s \in Nodes \X GPUKeys : Lg[s[1]].gpu[s[2]].user = K8sUser(c)}

\* C33: a ResourceClaim owns, over all nodes, at most the number of GPUs its
\* first device request counts (one without a request), however often the
\* controller reconciles it.
C33_AtMostRequested ==
    \A c \in ReconciledClaims :
        claimObj[c].phase = "present" =>
            Cardinality(OwnedSlots(ledger, c))
                <= parseClaimParameters(claimObj[c]).GPUCount

\* ---------------------------------------------------------------------
\* C34  /status reports every GPU, as available or as allocated
\* ---------------------------------------------------------------------

\* The ids a /status response lists as allocated.
AllocatedIDs(r) == {r.allocatedGPUs[i].id : i \in DOMAIN r.allocatedGPUs}

\* What the claim says of the /status response r.
C34_ResponseOK(r) ==
    /\ Range(r.availableGPUs) \cap AllocatedIDs(r) = {}
    /\ Range(r.availableGPUs) \cup AllocatedIDs(r) = 0..(r.totalGPUs - 1)

\* C34: the response of every /status request lists each id of
\* 0..totalGPUs-1 either in availableGPUs or in allocatedGPUs, and none in
\* both.
C34_StatusPartition ==
    (phase = "responded" /\ req.op = "status") => C34_ResponseOK(resp)

\* ---------------------------------------------------------------------
\* C35  A failed item is attempted again while the plan stays unchanged
\* ---------------------------------------------------------------------

\* The reconciler's fields after the full pass that runs an hour after its
\* last one, over the plans as they are and with every tool succeeding.
AfterHourlyPass(r, out) ==
    [lastFullReconcile |-> out.lastFullReconcile,
     lastCachePlanHash |-> out.lastCachePlanHash,
     currentImageStatus |-> out.acc.status,
     dirs |-> out.acc.dirs]

HourlyPass(r, order) ==
    AfterHourlyPass(r, processCachePlans(r, cachePlans, r.lastFullReconcile + Hour,
                                         NoCacheFault, order))

\* Every item of the plan has the stored status ready in r.
AllReady(r) ==
    \A i \in 1..Len(cachePlans[1].items) :
        r.currentImageStatus[
            IF cachePlans[1].items[i].type = "image"
            THEN ImageKey(cachePlans[1].items[i])
            ELSE RepoKey(cachePlans[1].items[i])].status = "ready"

\* C35: when the plan is the one the reconciler has seen last, two further
\* hourly passes over the unchanged plan with tools that succeed leave every
\* item of the plan ready, whatever failed before.
C35_RetryMakesReady ==
    (Len(cachePlans) = 1
        /\ calculatePlanHash(cachePlans) = reconciler.lastCachePlanHash) =>
        \A order \in KeyOrders : AllReady(HourlyPass(HourlyPass(reconciler, order), order))

\* ---------------------------------------------------------------------
\* C36  The published status and the items of the plan
\* ---------------------------------------------------------------------

\* The keys of the items of one type, in the order of the plan.
KeysOf(items, type) ==
    LET sel == SelectSeq(items, LAMBDA it : it.type = type)
    IN  [k \in 1..Len(sel) |->
            IF type = "image" THEN ImageKey(sel[k]) ELSE RepoKey(sel[k])]

\* The keys of a list of published entries.
EntryKeys(entries, type) ==
    [k \in 1..Len(entries) |->
        IF type = "image" THEN entries[k].ref
        ELSE entries[k].ref \o "#" \o entries[k].branch]

\* The last Reconcile got the plans and wrote its status.
PublishedAfterFetch == cacheLast.fetched /\ cacheLast.err = ""

C36_FullPassOK ==
    (PublishedAfterFetch /\ cacheLast.full) =>
        /\ EntryKeys(nodeCacheStatus.images, "image") = KeysOf(LastItems, "image")
        /\ EntryKeys(nodeCacheStatus.gitRepos, "gitRepo")
               = KeysOf(LastItems, "gitRepo")

\* A short-circuited pass publishes every stored entry, whether the plan
\* lists its item or not.
C36_ShortCircuitOK ==
    (PublishedAfterFetch /\ ~cacheLast.full) =>
        Range(EntryKeys(nodeCacheStatus.images, "image"))
            \cup Range(EntryKeys(nodeCacheStatus.gitRepos, "gitRepo"))
          = {k \in StatusKeys : reconciler.currentImageStatus[k] # NoStatus}

C37_EntryOK(entry) ==
    /\ entry.present <=> entry.status = "ready"
    /\ entry.status \in {"ready", "failed"}

C37_AllEntriesOK ==
    /\ \A k \in StatusKeys :
           reconciler.currentImageStatus[k] # NoStatus =>
               C37_EntryOK(reconciler.currentImageStatus[k])
    /\ \A k \in 1..Len(nodeCacheStatus.images) :
           C37_EntryOK(nodeCacheStatus.images[k])
    /\ \A k \in 1..Len(nodeCacheStatus.gitRepos) :
           C37_EntryOK(nodeCacheStatus.gitRepos[k])

\* C37: between the passes of the node agent's reconciler every stored item
\* status and every published one is ready with present true or failed with
\* present false; none is pulling.
C37_PresentIffReady == []C37_AllEntriesOK

\* A pass published a failed image beside a ready repository.
C37_Witness ==
    /\ cacheLast.full /\ cacheLast.err = ""
    /\ Len(nodeCacheStatus.images) = 1 /\ Len(nodeCacheStatus.gitRepos) = 1
    /\ nodeCacheStatus.images[1].status = "failed"
    /\ ~nodeCacheStatus.images[1].present
    /\ nodeCacheStatus.gitRepos[1].status = "ready"
    /\ nodeCacheStatus.gitRepos[1].present

\* ---------------------------------------------------------------------
\* C38  When the controller sends /allocate
\* ---------------------------------------------------------------------

\* The pass with the result out sent a POST to /allocate.
SendsAllocate(out) ==
    \E k \in 1..Len(out.calls) : out.calls[k].op = "allocate"

\* What the claim says of the Reconcile of claim that has the result out.
C38_PassOK(claim, out) ==
    SendsAllocate(out) =>
        /\ claim.phase = "present"
        /\ ~claim.deleting
        /\ claim.finalizer
        /\ claim.allocation = NoAllocation

C38_EveryPassOK ==
    \A c \in ReconciledClaims, e \in CtlEnvs :
        claimObj[c].phase # "none" =>
            C38_PassOK(claimObj[c],
                       ReconcileResult(ledger, c, claimObj[c], nodeReady, e))

\* A recorded allocation stays as long as the claim does.
C38_AllocationStays ==
    \A c \in ReconciledClaims :
        (claimObj[c].allocation # NoAllocation /\ claimObj'[c].phase = "present")
            => claimObj'[c].allocation = claimObj[c].allocation

\* C38: the Reconcile that runs from any reachable state, under any fault,
\* sends /allocate only for a claim that is present, not being deleted, has
\* the finalizer and has no recorded allocation; and no step changes or
\* clears a recorded allocation, so no later Reconcile sends one either.
C38_AllocateOnlyWhenNeeded == []C38_EveryPassOK /\ [][C38_AllocationStays]_vars

\* A Reconcile of the allocated claim has run and made no call.
C38_Witness ==
    \E c \in ReconciledClaims :
        /\ claimObj[c].phase = "present" /\ ~claimObj[c].deleting
        /\ claimObj[c].allocation # NoAllocation
        /\ ctlLast.claimUID = c /\ ctlLast.calls = <<>> /\ ctlLast.err = ""

\* ---------------------------------------------------------------------
\* C39  The GPUs of a deleted claim are released
\* ---------------------------------------------------------------------

\* C39: a ResourceClaim is gone (its finalizer removed, or never set) only
\* when no slot of any node is owned by it any more.
C39_ReleasedBeforeGone ==
    \A c \in ReconciledClaims :
        claimObj[c].phase = "gone" => OwnedSlots(ledger, c) = {}

====
